---- MODULE Spec2Model ----
(***************************************************************************)
(* Reconciliation engine of jms-sync: the cloud inventory of an account is *)
(* reconciled against the assets of one JumpServer node.                   *)
(*                                                                         *)
(*   Spec              AssetSyncManager.sync_assets, called twice in a row *)
(*                     on the same instances, node and options.            *)
(*   SpecCloud         SyncManager.sync_cloud_to_jms for one account: the  *)
(*                     regions are listed through AliyunCloud or           *)
(*                     HuaweiCloud get_instances, the counts are checked,  *)
(*                     the node is resolved and sync_assets runs once.     *)
(*   SpecSynchronizer  AssetSynchronizer.sync_assets, called once.         *)
(*   SpecClient        JumpServerClient._api_request under its retry       *)
(*                     decorator, one request after the other;             *)
(*                     SpecClientFair adds that every attempt ends.        *)
(*   SpecRun           main around SyncManager.run_with_retry around       *)
(*                     SyncManager.run.                                    *)
(*   SpecNodes         the resolution of the account node, by              *)
(*                     JmsNodeManager.init_nodes or by                     *)
(*                     AssetSynchronizer._ensure_basic_nodes.              *)
(*   SpecExtract       the two _extract_instance_id_from_comment on the    *)
(*                     same comment.                                       *)
(*   SpecPool          AssetSynchronizer._process_assets_creation: the     *)
(*                     batches of _create_assets_batch on the worker pool. *)
(*   SpecMutations     JumpServerClient get_assets, create_asset,          *)
(*                     update_asset and delete_asset over its cache.       *)
(*                                                                         *)
(* The directory (JumpServer) is a store that applies a request it accepts *)
(* and leaves its content alone when it rejects one; every request may be  *)
(* rejected.  JumpServerClient is taken with its asset_manager attached,   *)
(* as AssetSyncManager.__init__ reads it.                                  *)
(***************************************************************************)
EXTENDS Integers, Sequences, FiniteSets, TLC

VARIABLES
    dir,            \* directory: the assets under the account node, in listing order
    next_id,        \* directory: id given to the next created asset
    cloud_assets,   \* sync_assets argument: the normalized instances
    no_delete,      \* sync_assets argument
    protected_ips,  \* sync_assets argument
    pc,             \* position inside sync_assets
    js_assets,      \* sync_assets local: the listing taken at step 1
    js_by_iid,      \* sync_assets local: js_assets_by_instance_id
    cloud_by_iid,   \* sync_assets local: cloud_assets_by_instance_id, as its items() in order
    cloud_ips,      \* sync_assets local: keys of cloud_assets_by_ip
    idx,            \* sync_assets local: position of the running loop
    processed,      \* sync_assets local: processed_js_assets
    result,         \* sync_assets local: the result dict
    calls,          \* mutation requests issued in this run, in order
    run,            \* 1 for the first sync_assets call, 2 for the repetition
    first,          \* the result of run 1 (kept for the repetition)
    cloud_type,     \* sync_cloud_to_jms argument; platform of AssetSynchronizer.sync_assets
    regions,        \* the cloud: for each configured region, the instances it holds
    ridx,           \* sync_cloud_to_jms local: position of the region loop
    all_instances,  \* sync_cloud_to_jms local
    api_total_count,\* sync_cloud_to_jms local
    sync_result,    \* the SyncResult being returned
    lost_ids,       \* ids of instances the cloud holds that a failed listing did not deliver
    notices,        \* notifier: the is_failure flag of each notification sent
    notifier_log,   \* notifier: how each call of notify_asset_changes ended
    assets_to_delete, \* AssetSynchronizer.sync_assets local
    assets_to_create, \* AssetSynchronizer.sync_assets local
    deleted_assets, \* deleted_assets of the object whose sync_assets runs
    request,        \* _api_request argument: the method
    responses,      \* the directory's answer to each attempt of the request, in order
    retry_count,    \* retry wrapper local
    current_interval, \* retry wrapper local, in eighths of a second
    client_pc,      \* position of the retry wrapper: "call", "returned" or "raised"
    raised,         \* the exception the wrapper let through, "" when none
    served,         \* requests the client has finished
    clouds,         \* config['clouds'] as read by SyncManager.run
    max_retries_arg,\* run_with_retry argument max_retries
    attempt,        \* run_with_retry local
    run_pc,         \* position inside run_with_retry and run
    platforms,      \* run local: the grouped platforms, flattened in loop order
    pidx,           \* run local: position of the platform loop
    sync_results,   \* run local
    last_run,       \* the dict run() returned to run_with_retry
    returned,       \* the dict run_with_retry returned
    run_count,      \* number of times run() was entered
    args_output,    \* cli: whether --output was given
    exit_code,      \* cli: the code main() exited with, -1 while it runs
    nodes,          \* directory: the nodes, in listing order
    next_node,      \* directory: id given to the next created node
    cloud_name,     \* the account whose node is resolved
    resolver,       \* "manager" (JmsNodeManager) or "synchronizer" (AssetSynchronizer)
    node_pc,        \* position inside the resolver
    node_requests,  \* node requests sent to the directory, in order
    second_node,    \* init_nodes local: id of the provider-type node, 0 before
    node_id,        \* id of the node the resolver handed back, 0 when none
    all_nodes,      \* _get_node_by_path local: the listing it works on
    path_len,       \* _ensure_basic_nodes: number of segments of the path asked for
    level,          \* _get_node_by_path local: the segment being looked up
    parent_id,      \* _get_node_by_path local, 0 for None
    current_node,   \* _get_node_by_path local: id of the node, 0 for None
    node_cache,     \* _node_cache (AssetSynchronizer) or nodes_session (JmsNodeManager):
                    \* the id cached for each prefix of the path, by its length
    resolutions,    \* number of times the resolver was entered for the account
    comment_arg,    \* _extract_instance_id_from_comment argument
    extracted,      \* what the two extractors returned for comment_arg
    extract_pc,     \* "call" before the extraction, "returned" after
    work,           \* _process_assets_creation argument: the instances to create
    batch_size,     \* AssetSynchronizer.batch_size
    parallel_workers, \* AssetSynchronizer.parallel_workers
    pool_pc,        \* position inside _process_assets_creation
    batches,        \* the calls of _create_assets_batch: items, position, state
    metrics,        \* AssetSynchronizer.metrics: created and failed
    created_assets, \* AssetSynchronizer.created_assets
    lock,           \* AssetSynchronizer._lock: 0 when free, else the batch holding it
    attempts,       \* the create_asset calls made, with their outcome
    platform_nodes, \* AssetSynchronizer._platform_nodes: the cached node id, 0 for none
    cache_writes,   \* the threads that wrote _platform_nodes, in order; 0 is the caller
    jms_server,     \* the directory behind the client: the revision of each asset, 0 when absent
    store,          \* JumpServerClient.cache: the entry under each key
    mutations,      \* create_asset, update_asset and delete_asset calls that returned
    last_listing,   \* what the last get_assets call returned
    mutation_log    \* the create_asset, update_asset and delete_asset calls and their requests

cloud_vars == <<cloud_type, regions, ridx, all_instances, api_total_count,
                sync_result, lost_ids, notices, notifier_log>>

synchronizer_vars == <<assets_to_delete, assets_to_create, deleted_assets>>

client_vars == <<request, responses, retry_count, current_interval, client_pc,
                 raised, served>>

run_vars == <<clouds, max_retries_arg, attempt, run_pc, platforms, pidx,
              sync_results, last_run, returned, run_count, args_output, exit_code>>

node_vars == <<nodes, next_node, cloud_name, resolver, node_pc, node_requests,
               second_node, node_id, all_nodes, path_len, level, parent_id,
               current_node, node_cache, resolutions>>

extract_vars == <<comment_arg, extracted, extract_pc>>

pool_vars == <<work, batch_size, parallel_workers, pool_pc, batches, metrics,
               created_assets, lock, attempts, platform_nodes, cache_writes>>

mutation_vars == <<jms_server, store, mutations, last_listing, mutation_log>>

more_vars == <<extract_vars, pool_vars, mutation_vars>>

vars == <<dir, next_id, cloud_assets, no_delete, protected_ips, pc, js_assets,
          js_by_iid, cloud_by_iid, cloud_ips, idx, processed, result, calls,
          run, first, cloud_vars, synchronizer_vars, client_vars, run_vars, node_vars, more_vars>>

----------------------------------------------------------------------------
(* Bounds *)

MaxInstances == 2
MaxAssets == 2

----------------------------------------------------------------------------
(* Values *)

\* A comment is a sequence of lines; a line is label, separator, value.
\* "text" lines are free text without a label.
TextLine(t) == [key |-> "text", sep |-> "", val |-> t]
IdLine(i)   == [key |-> "instance_id", sep |-> ":", val |-> i]

Inst(i, a, h, o) == [instance_id |-> i, ip |-> a, address |-> a, hostname |-> h, os_type |-> o]

\* Instances the cloud source may hand over, in enumeration order.
InstanceUniverse ==
    << Inst("i-1", "10.0.0.1", "web-1", "Linux"),
       Inst("i-1", "10.0.0.2", "web-1", "Linux"),
       Inst("i-2", "10.0.0.2", "web-2", "Windows"),
       Inst("i-2", "10.0.0.1", "web-1", "Linux"),
       Inst("",    "10.0.0.3", "web-3", "Linux") >>

Asset(n, nm, a, p, pr, po, c) ==
    [id |-> n, name |-> nm, address |-> a, platform |-> p, protocol |-> pr, port |-> po, comment |-> c]

\* Assets the node may hold before the sync, in listing order.
AssetUniverse ==
    << Asset(1, "web-1", "10.0.0.1", "Linux",   "ssh", 22,   <<TextLine("synced"), IdLine("i-1")>>),
       Asset(2, "web-2", "10.0.0.2", "Windows", "rdp", 3389, <<TextLine("synced"), IdLine("i-2")>>),
       Asset(3, "web-1", "10.0.0.1", "Windows", "rdp", 3389, <<IdLine("i-1")>>),
       Asset(4, "db-9",  "10.0.0.9", "Linux",   "ssh", 22,   <<TextLine("aliyun import"), IdLine("i-9")>>),
       Asset(5, "web-1", "10.0.0.1", "Linux",   "ssh", 22,   <<TextLine("added by hand")>>),
       Asset(6, "GW-8",  "10.0.0.9", "Linux",   "ssh", 22,   << >>),
       Asset(7, "web-1", "10.0.0.1", "Linux",   "sftp", 22,  <<TextLine("synced"), IdLine("i-1")>>) >>

ProtectedChoices == SUBSET {"10.0.0.1", "10.0.0.9"}

\* no asset: directory ids start at 1
NoAsset == [id |-> 0]

\* one mutation request: the operation, the asset id it names (the id the
\* directory gave on a successful create), the instance id and address of
\* its subject, and whether the directory accepted it
Call(op, aid, iid, addr, ok) ==
    [op |-> op, id |-> aid, iid |-> iid, addr |-> addr, ok |-> ok, status |-> 200]

\* the responses _api_request turns into an exception: 401 raises
\* JumpServerAuthError, every other status from 400 up JumpServerAPIError
ErrorStatuses == {401, 500}

\* the call as the directory refused it
Refused(c, st) == [c EXCEPT !.status = st]

----------------------------------------------------------------------------
(* Sequences *)

RECURSIVE Pick(_, _, _)
\* the subsequence of s at the positions in idxs, in order, from position i on
Pick(s, idxs, i) ==
    IF i > Len(s) THEN << >>
    ELSE IF i \in idxs THEN <<s[i]>> \o Pick(s, idxs, i + 1)
    ELSE Pick(s, idxs, i + 1)

SubSeqs(s, max) == {Pick(s, idxs, 1) : idxs \in {x \in SUBSET DOMAIN s : Cardinality(x) <= max}}

Range(s) == {s[i] : i \in DOMAIN s}

UniqueIds(s) ==
    \A i, j \in DOMAIN s :
        (i # j /\ s[i].instance_id # "") => s[i].instance_id # s[j].instance_id

----------------------------------------------------------------------------
(* AssetSyncManager helpers *)

\* _extract_instance_id_from_comment: the value of the first line holding
\* "instance_id:", or "" for none.
ExtractInstanceId(comment) ==
    LET hits == {i \in DOMAIN comment : comment[i].key = "instance_id" /\ comment[i].sep = ":"}
    IN IF hits = {} THEN ""
       ELSE comment[CHOOSE i \in hits : \A j \in hits : i <= j].val

\* ip = asset.get('ip') or asset.get('address') or asset.get('private_ip')
CloudIp(x) == IF x.ip # "" THEN x.ip ELSE x.address

\* name = hostname or instance_name, default "<cloud_type>-<ip>"
CloudName(x) == IF x.hostname # "" THEN x.hostname ELSE "cloud-" \o CloudIp(x)

\* platform = os_type, default Linux
CloudPlatform(x) == IF x.os_type = "" THEN "Linux" ELSE x.os_type

IsWindows(p) == p \in {"Windows", "windows", "WINDOWS"}

\* (mutant) the instance id is left out of the comment
BuildCommentNoId(x) == <<TextLine("synced")>>

\* the comment written on create and update
BuildComment(x) ==
    <<TextLine("synced")>> \o (IF x.instance_id # "" THEN <<IdLine(x.instance_id)>> ELSE << >>)

\* js_assets_by_instance_id: a dict filled in listing order, the last asset wins
IndexByInstanceId(assets) ==
    LET ids == {ExtractInstanceId(assets[i].comment) : i \in DOMAIN assets} \ {""}
    IN [iid \in ids |->
          assets[CHOOSE i \in DOMAIN assets :
                    /\ ExtractInstanceId(assets[i].comment) = iid
                    /\ \A j \in DOMAIN assets :
                          ExtractInstanceId(assets[j].comment) = iid => j <= i]]

RECURSIVE ItemsByIp(_, _)
\* (mutant) the loop runs over the instances keyed by IP
ItemsByIp(cloud, i) ==
    IF i > Len(cloud) THEN << >>
    ELSE IF \A j \in 1..(i - 1) : cloud[j].ip # cloud[i].ip
         THEN <<cloud[i]>> \o ItemsByIp(cloud, i + 1)
         ELSE ItemsByIp(cloud, i + 1)

\* cloud_assets_by_instance_id.items(): keys in order of first insertion, the
\* value the last instance carrying the key
RECURSIVE ItemsByInstanceId(_, _)
ItemsByInstanceId(cloud, i) ==
    IF i > Len(cloud) THEN << >>
    ELSE IF /\ cloud[i].instance_id # ""
            /\ \A j \in 1..(i - 1) : cloud[j].instance_id # cloud[i].instance_id
         THEN LET last == CHOOSE k \in DOMAIN cloud :
                              /\ cloud[k].instance_id = cloud[i].instance_id
                              /\ \A j \in DOMAIN cloud :
                                    cloud[j].instance_id = cloud[i].instance_id => j <= k
              IN <<cloud[last]>> \o ItemsByInstanceId(cloud, i + 1)
         ELSE ItemsByInstanceId(cloud, i + 1)

\* keys of cloud_assets_by_ip
IpKeys(cloud) == {CloudIp(cloud[i]) : i \in DOMAIN cloud} \ {""}

\* (mutant) an asset carrying the instance's IP is preferred to the id match
MatchIpFirst(x, by_iid, assets) ==
    LET hits == {i \in DOMAIN assets : assets[i].address = x.ip}
    IN IF hits # {} THEN assets[CHOOSE i \in hits : \A j \in hits : j <= i]
       ELSE IF x.instance_id \in DOMAIN by_iid THEN by_iid[x.instance_id] ELSE NoAsset

\* the asset an instance is matched to: the one the instance-id index holds
\* for its id, or none
Match(x, by_iid, assets) ==
    IF x.instance_id \in DOMAIN by_iid THEN by_iid[x.instance_id] ELSE NoAsset

\* the platform the comparison reads off the directory asset
JsPlatform(a) == IF a.platform = "Windows" THEN "Windows" ELSE "Linux"

TargetPort(platform) == IF IsWindows(platform) THEN 3389 ELSE 22
TargetProtocol(platform) == IF IsWindows(platform) THEN "rdp" ELSE "ssh"

\* (mutant) the platform is compared with the raw os_type, which never equals it
UpdateReasonsRawPlatform(a, x) ==
    (IF a.address # x.ip THEN <<"ip">> ELSE << >>)
    \o (IF a.name # x.hostname THEN <<"name">> ELSE << >>)
    \o <<"platform">>

\* the update reasons of a matched pair, one per differing field
UpdateReasons(a, x) ==
    (IF a.address # CloudIp(x) THEN <<"ip">> ELSE << >>)
    \o (IF a.name # CloudName(x) THEN <<"name">> ELSE << >>)
    \o (IF IsWindows(JsPlatform(a)) # IsWindows(CloudPlatform(x)) THEN <<"platform">> ELSE << >>)
    \o (IF \/ TargetProtocol(JsPlatform(a)) # TargetProtocol(CloudPlatform(x))
           \/ a.port # TargetPort(CloudPlatform(x))
        THEN <<"port">> ELSE << >>)

NeedUpdate(a, x) == UpdateReasons(a, x) # << >>

\* the directory asset a successful create or update leaves behind
TargetAsset(aid, x) ==
    Asset(aid, CloudName(x), CloudIp(x),
          IF IsWindows(CloudPlatform(x)) THEN "Windows" ELSE "Linux",
          TargetProtocol(CloudPlatform(x)), TargetPort(CloudPlatform(x)),
          BuildComment(x))

\* (mutant) the no_delete option is not consulted
DeleteEnabledAlways(nd) == TRUE

\* the delete pass is entered
DeleteEnabled(nd) == ~nd

\* (mutant) the protected list is not consulted
IsProtectedNever(a, prot) == FALSE

\* the asset is skipped as protected
IsProtected(a, prot) == a.address \in prot

\* delete_reason of the delete pass: the instance id or the address that the
\* cloud no longer has, "" when none was derived
DeleteReason(a, ids, ips) ==
    LET iid == ExtractInstanceId(a.comment)
    IN IF iid # "" THEN (IF iid \notin ids THEN "instance_id" ELSE "")
       ELSE IF a.address # "" /\ a.address \notin ips THEN "ip" ELSE ""

\* should_delete of the delete pass
ShouldDelete(a, ids, ips) ==
    LET iid == ExtractInstanceId(a.comment)
    IN IF iid # "" THEN iid \notin ids
       ELSE a.address # "" /\ a.address \notin ips

EmptyResult(total) ==
    [created |-> 0, updated |-> 0, deleted |-> 0, skipped |-> 0, failed |-> 0,
     total |-> total, errors |-> << >>]

Failed(r, op) == [r EXCEPT !.failed = @ + 1, !.errors = Append(@, op)]

\* AssetSynchronizer counts a failure in metrics["failed"] and keeps no
\* record of it
CountFailed(r) == [r EXCEPT !.failed = @ + 1]

\* the SyncResult sync_cloud_to_jms starts from
NewSyncResult ==
    [success |-> TRUE, total |-> 0, error_message |-> "", created |-> 0, updated |-> 0,
     deleted |-> 0, skipped |-> 0, failed |-> 0]

----------------------------------------------------------------------------
(* Directory *)

RECURSIVE Replace(_, _, _)
Replace(s, aid, a) ==
    IF s = << >> THEN << >>
    ELSE <<IF Head(s).id = aid THEN a ELSE Head(s)>> \o Replace(Tail(s), aid, a)

Remove(s, aid) == SelectSeq(s, LAMBDA a : a.id # aid)

----------------------------------------------------------------------------
(* AssetSyncManager.sync_assets *)

AfterMatch(nd) == IF DeleteEnabled(nd) THEN "delete" ELSE "done"

\* a per-item handler that logs and returns would end the run there
OnItemFailureAbort(nextpc) == "done"

\* the per-item handlers record the failure and fall through to the end of
\* the loop body: the loop goes on with the next item
OnItemFailure(nextpc) == nextpc

\* steps 1-3: list the node's assets and build the indexes
SyncStart ==
    /\ pc = "start"
    /\ \/ \* get_assets_by_node_id raised: the outer handler records one failure
          /\ pc' = "done"
          /\ result' = Failed(result, "sync")
          /\ UNCHANGED <<js_assets, js_by_iid, cloud_by_iid, cloud_ips, idx>>
       \/ /\ js_assets' = dir
          /\ js_by_iid' = IndexByInstanceId(dir)
          /\ cloud_by_iid' = ItemsByInstanceId(cloud_assets, 1)
          /\ cloud_ips' = IpKeys(cloud_assets)
          /\ idx' = 1
          /\ pc' = IF ItemsByInstanceId(cloud_assets, 1) # << >> THEN "match"
                   ELSE IF AfterMatch(no_delete) = "delete" /\ dir # << >> THEN "delete"
                   ELSE "done"
          /\ UNCHANGED result
    /\ UNCHANGED <<dir, next_id, cloud_assets, no_delete, protected_ips, processed,
                   calls, run, first, cloud_vars, synchronizer_vars>>
    /\ UNCHANGED <<client_vars, run_vars, node_vars, more_vars>>

MatchNextPc ==
    IF idx < Len(cloud_by_iid) THEN "match"
    ELSE IF AfterMatch(no_delete) = "delete" /\ js_assets # << >> THEN "delete"
    ELSE "done"

\* step 4.1, one iteration: the instance is matched by instance id, then
\* updated, skipped or created
ProcessInstance ==
    /\ pc = "match"
    /\ LET x == cloud_by_iid[idx]
           iid == x.instance_id
           a == Match(x, js_by_iid, js_assets)
       IN IF a # NoAsset
          THEN    /\ processed' = processed \cup {a.id}
                  /\ IF NeedUpdate(a, x)
                     THEN \/ /\ dir' = Replace(dir, a.id, TargetAsset(a.id, x))
                             /\ result' = [result EXCEPT !.updated = @ + 1]
                             /\ calls' = Append(calls, Call("update", a.id, iid, CloudIp(x), TRUE))
                          \/ /\ dir' = dir
                             /\ result' = Failed(result, "update")
                             /\ \E st \in ErrorStatuses : calls' = Append(calls, Refused(Call("update", a.id, iid, CloudIp(x), FALSE), st))
                     ELSE /\ result' = [result EXCEPT !.skipped = @ + 1]
                          /\ UNCHANGED <<dir, calls>>
                  /\ UNCHANGED next_id
          ELSE /\ \/ /\ dir' = Append(dir, TargetAsset(next_id, x))
                     /\ next_id' = next_id + 1
                     /\ result' = [result EXCEPT !.created = @ + 1]
                     /\ calls' = Append(calls, Call("create", next_id, iid, CloudIp(x), TRUE))
                  \/ /\ result' = Failed(result, "create")
                     /\ \E st \in ErrorStatuses : calls' = Append(calls, Refused(Call("create", 0, iid, CloudIp(x), FALSE), st))
                     /\ UNCHANGED <<dir, next_id>>
               /\ UNCHANGED processed
    /\ pc' = IF result'.failed > result.failed THEN OnItemFailure(MatchNextPc) ELSE MatchNextPc
    /\ idx' = IF pc' = "match" THEN idx + 1 ELSE 1
    /\ UNCHANGED <<cloud_assets, no_delete, protected_ips, js_assets, js_by_iid,
                   cloud_by_iid, cloud_ips, run, first, cloud_vars, synchronizer_vars>>
    /\ UNCHANGED <<client_vars, run_vars, node_vars, more_vars>>

DeleteNextPc == IF idx < Len(js_assets) THEN "delete" ELSE "done"

\* an entry of deleted_assets: the asset and the reason noted with it, ""
\* when the entry carries none
DeletedAsset(id, reason) == [id |-> id, reason |-> reason]

\* a delete pass that does not pass over the assets matched to an instance
DeleteDecidedUnmatchedOrNot(a, done, prot, ids, ips) == ~IsProtected(a, prot)

\* the delete pass sends a delete for asset a: it was not matched to an
\* instance, it is not protected and a delete reason was derived
DeleteDecided(a, done, prot, ids, ips) ==
    /\ a.id \notin done
    /\ ~IsProtected(a, prot)
    /\ ShouldDelete(a, ids, ips)

\* step 5, one iteration of the delete pass
DeleteStep ==
    /\ pc = "delete"
    /\ LET a == js_assets[idx]
           ids == {cloud_by_iid[i].instance_id : i \in DOMAIN cloud_by_iid}
       IN IF DeleteDecided(a, processed, protected_ips, ids, cloud_ips)
          THEN \/ /\ dir' = Remove(dir, a.id)
                  /\ result' = [result EXCEPT !.deleted = @ + 1]
                  /\ calls' = Append(calls, Call("delete", a.id, ExtractInstanceId(a.comment), a.address, TRUE))
                  /\ deleted_assets' = Append(deleted_assets,
                         DeletedAsset(a.id, DeleteReason(a, ids, cloud_ips)))
               \/ /\ dir' = dir
                  /\ result' = Failed(result, "delete")
                  /\ \E st \in ErrorStatuses : calls' = Append(calls, Refused(Call("delete", a.id, ExtractInstanceId(a.comment), a.address, FALSE), st))
                  /\ UNCHANGED deleted_assets
          ELSE IF a.id \notin processed /\ IsProtected(a, protected_ips)
          THEN /\ result' = [result EXCEPT !.skipped = @ + 1]
               /\ UNCHANGED <<dir, calls, deleted_assets>>
          ELSE UNCHANGED <<dir, result, calls, deleted_assets>>
    /\ pc' = IF result'.failed > result.failed THEN OnItemFailure(DeleteNextPc) ELSE DeleteNextPc
    /\ idx' = IF pc' = "delete" THEN idx + 1 ELSE 1
    /\ UNCHANGED <<next_id, cloud_assets, no_delete, protected_ips, js_assets, js_by_iid,
                   cloud_by_iid, cloud_ips, processed, run, first, cloud_vars,
                   assets_to_delete, assets_to_create>>
    /\ UNCHANGED <<client_vars, run_vars, node_vars, more_vars>>

\* sync_assets is called again with the same arguments
Rerun ==
    /\ pc = "done"
    /\ run = 1
    /\ run' = 2
    /\ first' = result
    /\ pc' = "start"
    /\ result' = EmptyResult(Len(cloud_assets))
    /\ calls' = << >>
    /\ processed' = {}
    /\ js_assets' = << >>
    /\ js_by_iid' = << >>
    /\ cloud_by_iid' = << >>
    /\ cloud_ips' = {}
    /\ idx' = 1
    /\ deleted_assets' = << >>
    /\ UNCHANGED <<dir, next_id, cloud_assets, no_delete, protected_ips, cloud_vars,
                   assets_to_delete, assets_to_create>>
    /\ UNCHANGED <<client_vars, run_vars, node_vars, more_vars>>

\* sync_cloud_to_jms has not been entered
CloudIdle ==
    /\ cloud_type = "aliyun"
    /\ regions = << >>
    /\ ridx = 1
    /\ all_instances = << >>
    /\ api_total_count = 0
    /\ sync_result = NewSyncResult
    /\ lost_ids = {}
    /\ notices = << >>
    /\ notifier_log = << >>

\* AssetSynchronizer.sync_assets has not been entered
SynchronizerIdle ==
    /\ assets_to_delete = << >>
    /\ assets_to_create = << >>
    /\ deleted_assets = << >>

\* no request is in the retry wrapper
ClientIdle ==
    /\ request = ""
    /\ responses = << >>
    /\ retry_count = 0
    /\ current_interval = 0
    /\ client_pc = "idle"
    /\ raised = ""
    /\ served = 0

\* run_with_retry has not been entered
RunIdle ==
    /\ clouds = << >>
    /\ max_retries_arg = 0
    /\ attempt = 0
    /\ run_pc = "idle"
    /\ platforms = << >>
    /\ pidx = 1
    /\ sync_results = << >>
    /\ last_run = << >>
    /\ returned = << >>
    /\ run_count = 0
    /\ args_output = FALSE
    /\ exit_code = -1

\* no node resolution is under way
NodesIdle ==
    /\ nodes = << >>
    /\ next_node = 1
    /\ cloud_name = ""
    /\ resolver = ""
    /\ node_pc = "idle"
    /\ node_requests = << >>
    /\ second_node = 0
    /\ node_id = 0
    /\ all_nodes = << >>
    /\ path_len = 0
    /\ level = 0
    /\ parent_id = 0
    /\ current_node = 0
    /\ node_cache = << >>
    /\ resolutions = 0

\* nothing else is under way
ExtractIdle ==
    /\ comment_arg = << >>
    /\ extracted = [manager |-> "", synchronizer |-> ""]
    /\ extract_pc = "idle"

\* no batch creation is under way
PoolIdle ==
    /\ work = << >>
    /\ batch_size = 1
    /\ parallel_workers = 1
    /\ pool_pc = "idle"
    /\ batches = << >>
    /\ metrics = [created |-> 0, failed |-> 0]
    /\ created_assets = << >>
    /\ lock = 0
    /\ attempts = << >>
    /\ platform_nodes = 0
    /\ cache_writes = << >>

\* the client has listed and changed nothing
MutationsIdle ==
    /\ jms_server = << >>
    /\ store = << >>
    /\ mutations = 0
    /\ last_listing = << >>
    /\ mutation_log = << >>

MoreIdle == ExtractIdle /\ PoolIdle /\ MutationsIdle

Init ==
    /\ dir \in SubSeqs(AssetUniverse, MaxAssets)
    /\ next_id = Len(AssetUniverse) + 1
    /\ cloud_assets \in SubSeqs(InstanceUniverse, MaxInstances)
    /\ no_delete \in BOOLEAN
    /\ protected_ips \in ProtectedChoices
    /\ pc = "start"
    /\ js_assets = << >>
    /\ js_by_iid = << >>
    /\ cloud_by_iid = << >>
    /\ cloud_ips = {}
    /\ idx = 1
    /\ processed = {}
    /\ result = EmptyResult(Len(cloud_assets))
    /\ calls = << >>
    /\ run = 1
    /\ first = EmptyResult(0)
    /\ CloudIdle
    /\ SynchronizerIdle
    /\ ClientIdle
    /\ RunIdle
    /\ NodesIdle
    /\ MoreIdle

Next == SyncStart \/ ProcessInstance \/ DeleteStep \/ Rerun

Spec == Init /\ [][Next]_vars

----------------------------------------------------------------------------
(* Properties of AssetSyncManager.sync_assets *)

Done == pc = "done"

\* the listing of step 1 came back (the outer handler did not run)
Listed == \A i \in DOMAIN result.errors : result.errors[i] # "sync"

CallsOf(op) == {i \in DOMAIN calls : calls[i].op = op}

\* a directory asset of the listing the delete pass would remove
Candidate(a) ==
    /\ a.id \notin processed
    /\ ShouldDelete(a, {cloud_by_iid[i].instance_id : i \in DOMAIN cloud_by_iid}, cloud_ips)

\* C1: sync_assets never issues a delete request for a directory asset whose
\* address is in protected_ips, whatever delete reason was derived for it.
C1_ProtectedNeverDeleted ==
    \A i \in CallsOf("delete") : calls[i].addr \notin protected_ips

\* a protected asset with a delete reason went through the delete pass
C1_Witness ==
    /\ Done /\ Listed /\ ~no_delete
    /\ \E i \in DOMAIN js_assets :
          Candidate(js_assets[i]) /\ js_assets[i].address \in protected_ips

\* C3: with no_delete set, sync_assets issues no delete request at all.
C3_NoDeleteIssuesNoDelete ==
    no_delete => CallsOf("delete") = {}

\* a run with no_delete set ended with an unprotected delete candidate in the listing
C3_Witness ==
    /\ Done /\ Listed /\ no_delete
    /\ \E i \in DOMAIN js_assets :
          Candidate(js_assets[i]) /\ js_assets[i].address \notin protected_ips

\* C7: after a sync_assets run without a failed item, the repetition with the
\* same instances, node and options issues no create, update or delete.
C7_Idempotent ==
    (run = 2 /\ first.failed = 0) => calls = << >>

\* the repetition ran to its end after a first run that changed the directory
C7_Witness ==
    /\ run = 2 /\ Done /\ Listed /\ first.failed = 0
    /\ first.created > 0 /\ first.updated > 0 /\ first.deleted > 0

\* C8: with unique, non-empty instance ids and no asset under the node, the
\* run issues exactly one create per instance, in order, and no update or delete.
C8_EmptyDirectoryCreatesAll ==
    (/\ Done /\ Listed /\ js_assets = << >>
     /\ UniqueIds(cloud_assets)
     /\ \A i \in DOMAIN cloud_assets : cloud_assets[i].instance_id # "")
    => /\ Len(calls) = Len(cloud_assets)
       /\ \A i \in DOMAIN calls :
             /\ calls[i].op = "create"
             /\ calls[i].iid = cloud_assets[i].instance_id
             /\ calls[i].addr = CloudIp(cloud_assets[i])

\* two instances were created into an empty node
C8_Witness ==
    /\ Done /\ Listed /\ js_assets = << >> /\ Len(cloud_assets) = MaxInstances
    /\ UniqueIds(cloud_assets)
    /\ \A i \in DOMAIN cloud_assets : cloud_assets[i].instance_id # ""
    /\ result.created = MaxInstances

\* the state an instance asks of its asset
SameAsTarget(a, x) ==
    /\ a.address = CloudIp(x)
    /\ a.name = CloudName(x)
    /\ a.platform = CloudPlatform(x)
    /\ a.protocol = TargetProtocol(CloudPlatform(x))
    /\ a.port = TargetPort(CloudPlatform(x))

CallsFor(iid) == {i \in DOMAIN calls : calls[i].op \in {"create", "update"} /\ calls[i].iid = iid}

\* the instance is the one the loop keeps for its id
Kept(x) == \E i \in DOMAIN cloud_by_iid : cloud_by_iid[i] = x

\* the asset is the one the instance-id index holds for its id
Indexed(a) ==
    /\ ExtractInstanceId(a.comment) \in DOMAIN js_by_iid
    /\ js_by_iid[ExtractInstanceId(a.comment)] = a

\* C9 as stated, already for instances with unique ids: an instance whose id
\* is embedded in an asset's comment and whose target state equals that asset
\* causes neither a create nor an update.
C9_Original ==
    (Done /\ Listed /\ UniqueIds(cloud_assets)) =>
        \A i \in DOMAIN cloud_assets, j \in DOMAIN js_assets :
            (/\ cloud_assets[i].instance_id # ""
             /\ ExtractInstanceId(js_assets[j].comment) = cloud_assets[i].instance_id
             /\ SameAsTarget(js_assets[j], cloud_assets[i]))
            => /\ CallsFor(cloud_assets[i].instance_id) = {}
               /\ js_assets[j].id \in processed

\* C9 amended: the same for the instance the loop keeps for its id and the
\* asset the instance-id index holds for it; the pair is counted in skipped.
C9_MatchedCurrentSkipped ==
    (Done /\ Listed) =>
        \A i \in DOMAIN cloud_assets, j \in DOMAIN js_assets :
            (/\ cloud_assets[i].instance_id # ""
             /\ ExtractInstanceId(js_assets[j].comment) = cloud_assets[i].instance_id
             /\ SameAsTarget(js_assets[j], cloud_assets[i])
             /\ Kept(cloud_assets[i]) /\ Indexed(js_assets[j]))
            => /\ CallsFor(cloud_assets[i].instance_id) = {}
               /\ js_assets[j].id \in processed
               /\ result.skipped >= 1

\* an instance met its asset in target state, next to another instance that
\* was created or updated
C9_Witness ==
    /\ Done /\ Listed /\ result.created + result.updated > 0
    /\ \E i \in DOMAIN cloud_assets, j \in DOMAIN js_assets :
          /\ cloud_assets[i].instance_id # ""
          /\ ExtractInstanceId(js_assets[j].comment) = cloud_assets[i].instance_id
          /\ SameAsTarget(js_assets[j], cloud_assets[i])
          /\ Kept(cloud_assets[i]) /\ Indexed(js_assets[j])

\* the instances the loop of step 4.1 has dealt with
Handled ==
    IF pc = "match" THEN {cloud_by_iid[i] : i \in 1..(idx - 1)}
    ELSE IF pc \in {"delete", "done"} /\ Listed THEN Range(cloud_by_iid)
    ELSE {}

\* C10: an instance whose id is in the instance-id index is matched to the
\* asset indexed under it - that asset is the one marked processed and the only
\* one its update names, no create is issued - also when another asset
\* carries the instance's IP or hostname.
C10_InstanceIdMatchWins ==
    /\ \A x \in Handled :
          x.instance_id \in DOMAIN js_by_iid =>
             /\ js_by_iid[x.instance_id].id \in processed
             /\ \A i \in CallsFor(x.instance_id) :
                   calls[i].op = "update" /\ calls[i].id = js_by_iid[x.instance_id].id
    /\ processed = {js_by_iid[x.instance_id].id :
                       x \in {y \in Handled : y.instance_id \in DOMAIN js_by_iid}}

\* an instance was matched by id while a different asset carried its IP or hostname
C10_Witness ==
    /\ Done /\ Listed
    /\ \E x \in Handled, j \in DOMAIN js_assets :
          /\ x.instance_id \in DOMAIN js_by_iid
          /\ js_assets[j].id # js_by_iid[x.instance_id].id
          /\ js_assets[j].id \notin processed
          /\ (js_assets[j].address = CloudIp(x) \/ js_assets[j].name = CloudName(x))

----------------------------------------------------------------------------
(* Cloud source: AliyunCloud.get_instances, HuaweiCloud.get_instances *)

\* instances per page of AliyunCloud.get_instances (25 in the source, scaled
\* so that a region of the model spans several pages)
page_size == 1

\* an instance as the cloud holds it
Server(i, n, priv, pub, os) ==
    [instance_id |-> i, name |-> n, private_ip |-> priv, public_ip |-> pub, os_name |-> os]

\* what each configured region may hold, in the order the cloud lists it
RegionUniverse ==
    << << Server("i-1", "web-1",  "10.0.0.1", "",        "CentOS 7"),
          Server("i-3", "twin-3", "10.0.0.3", "",        "CentOS 7"),
          Server("i-4", "web-4",  "",         "8.0.0.4", "CentOS 7") >>,
       << Server("i-2", "web-2",  "10.0.0.2", "",        "Windows Server 2019"),
          Server("i-5", "web-5",  "",         "",        "CentOS 7") >> >>

\* 'windows' in os_name.lower()
MentionsWindows(os) == os \in {"Windows Server 2019"}

\* 'win' in instance_name.lower()
NameHasWin(n) == n \in {"twin-3"}

ServerIds(content) == {content[i].instance_id : i \in DOMAIN content} \ {""}

\* the dict AliyunCloud.get_instances builds for an instance
AliyunDict(s, total) ==
    [instance_id |-> s.instance_id, name |-> s.name, has_ip |-> TRUE,
     ip |-> IF s.private_ip # "" THEN s.private_ip ELSE s.public_ip,
     private_ip |-> s.private_ip,
     os_type |-> IF MentionsWindows(s.os_name) THEN "Windows" ELSE "Linux",
     has_total |-> TRUE, total_count |-> total]

\* the dict HuaweiCloud.get_instances builds for an instance: no 'ip' key and
\* no 'total_count' key
HuaweiDict(s) ==
    [instance_id |-> s.instance_id, name |-> s.name, has_ip |-> FALSE,
     ip |-> "", private_ip |-> s.private_ip,
     os_type |-> IF MentionsWindows(s.os_name) THEN "Windows" ELSE "Linux",
     has_total |-> FALSE, total_count |-> 0]

PageCount(total) == IF total > 0 THEN (total + page_size - 1) \div page_size ELSE 0

PageOf(i) == (i + page_size - 1) \div page_size

RECURSIVE AliyunPages(_, _, _)
\* the pages that came back, instance by instance: an instance without id or
\* without any IP is skipped
AliyunPages(content, lostpages, i) ==
    IF i > Len(content) THEN << >>
    ELSE LET d == AliyunDict(content[i], Len(content))
         IN (IF PageOf(i) \notin lostpages /\ d.instance_id # "" /\ d.ip # ""
             THEN <<d>> ELSE << >>)
            \o AliyunPages(content, lostpages, i + 1)

\* the outcomes of set_region + get_instances on a region: what is handed to
\* sync_cloud_to_jms, and the ids of the held instances a failure withheld
AliyunOutcomes(content) ==
    \* the count request failed, or the client could not be built: []
    {[list |-> << >>, lost |-> ServerIds(content)]}
    \cup
    \* the count request answered; every page may be given up after its retries
    {[list |-> AliyunPages(content, lostpages, 1),
      lost |-> {content[i].instance_id : i \in {j \in DOMAIN content : PageOf(j) \in lostpages}} \ {""}] :
        lostpages \in SUBSET (1..PageCount(Len(content)))}

RECURSIVE HuaweiServers(_, _)
HuaweiServers(content, i) ==
    IF i > Len(content) THEN << >>
    ELSE <<HuaweiDict(content[i])>> \o HuaweiServers(content, i + 1)

HuaweiOutcomes(content) ==
    \* a request failed: HuaweiError, caught by the region loop
    {[list |-> << >>, lost |-> ServerIds(content)]}
    \cup {[list |-> HuaweiServers(content, 1), lost |-> {}]}

Outcomes(ctype, content) ==
    IF ctype = "aliyun" THEN AliyunOutcomes(content) ELSE HuaweiOutcomes(content)

----------------------------------------------------------------------------
(* SyncManager.sync_cloud_to_jms *)

\* _extract_instance_ip: the 'ip' key when present, else 'private_ip'
ExtractInstanceIp(d) == IF d.has_ip THEN d.ip ELSE d.private_ip

\* _extract_os_type
ExtractOsType(d) ==
    IF d.os_type = "Windows" THEN "Windows"
    ELSE IF d.name # "" /\ NameHasWin(d.name) THEN "Windows"
    ELSE "Linux"

\* _process_cloud_instance returns a normalized instance (not None)
Processable(d) == d.instance_id # "" /\ ExtractInstanceIp(d) # ""

ProcessCloudInstance(d, ctype) ==
    Inst(d.instance_id, ExtractInstanceIp(d),
         IF d.name # "" THEN d.name ELSE ctype \o "-" \o d.instance_id,
         ExtractOsType(d))

RECURSIVE ProcessInstances(_, _)
ProcessInstances(list, ctype) ==
    IF list = << >> THEN << >>
    ELSE (IF Processable(Head(list)) THEN <<ProcessCloudInstance(Head(list), ctype)>> ELSE << >>)
         \o ProcessInstances(Tail(list), ctype)

\* the total the first instance of a listing carries
ListingTotal(list) ==
    IF list # << >> /\ list[1].has_total THEN list[1].total_count ELSE 0

\* (mutant) only a surplus of instances is taken for a mismatch
CountMismatchSurplus(api, total) == api > 0 /\ total > api

\* the count check
CountMismatch(api, total) == api > 0 /\ total # api

\* one iteration of the region loop
ListRegion ==
    /\ pc = "regions"
    /\ \E o \in Outcomes(cloud_type, regions[ridx]) :
          /\ api_total_count' = api_total_count + ListingTotal(o.list)
          /\ all_instances' = all_instances \o ProcessInstances(o.list, cloud_type)
          /\ lost_ids' = lost_ids \cup o.lost
    /\ ridx' = IF ridx < Len(regions) THEN ridx + 1 ELSE 1
    /\ pc' = IF ridx < Len(regions) THEN "regions" ELSE "check"
    /\ UNCHANGED <<dir, next_id, cloud_assets, no_delete, protected_ips, js_assets,
                   js_by_iid, cloud_by_iid, cloud_ips, idx, processed, result, calls,
                   run, first, cloud_type, regions, sync_result, notices,
                   notifier_log, synchronizer_vars>>
    /\ UNCHANGED <<client_vars, run_vars, node_vars, more_vars>>

\* the account sync_cloud_to_jms is asked for: one with a client and a
\* configuration entry, one without a client, one whose client is there but
\* whose (type, name) pair matches no entry of config['clouds']
Accounts == {"configured", "no client", "no config"}

\* the lookups that open sync_cloud_to_jms; both early returns hand the
\* result back at once
FindAccount ==
    /\ pc = "account"
    /\ \E account \in Accounts :
          IF account = "configured"
          THEN /\ pc' = "regions"
               /\ UNCHANGED sync_result
          ELSE /\ pc' = "returned"
               /\ sync_result' = [sync_result EXCEPT !.success = FALSE, !.error_message = account]
    /\ UNCHANGED <<dir, next_id, cloud_assets, no_delete, protected_ips, js_assets,
                   js_by_iid, cloud_by_iid, cloud_ips, idx, processed, result, calls,
                   run, first, cloud_type, regions, ridx, all_instances,
                   api_total_count, lost_ids, notices, notifier_log, synchronizer_vars>>
    /\ UNCHANGED <<client_vars, run_vars, node_vars, more_vars>>

NotifyOutcomes == {"sent", "not sent", "raised"}

\* a handler around the notifier that let the failure reach the result
AfterNotifyFailing(sr, outcome) ==
    IF outcome = "raised" THEN [sr EXCEPT !.success = FALSE, !.failed = @ + 1] ELSE sr

\* what sync_cloud_to_jms holds after notify_asset_changes: the notifier is
\* given a copy (to_dict), its return value is dropped and its exception is
\* logged
AfterNotify(sr, outcome) == sr

\* notify_asset_changes is called with the result sr
Notify(sr, is_failure) ==
    \E outcome \in NotifyOutcomes :
        /\ notices' = Append(notices, is_failure)
        /\ notifier_log' = Append(notifier_log, outcome)
        /\ sync_result' = AfterNotify(sr, outcome)

\* a check that never finds the inventory empty
NoInstancesNever(instances) == FALSE

\* if not all_instances
NoInstances(instances) == instances = << >>

\* the count check and the empty-inventory return
CheckCounts ==
    /\ pc = "check"
    /\ LET total == Len(all_instances)
       IN IF CountMismatch(api_total_count, total)
          THEN /\ Notify([sync_result EXCEPT !.success = FALSE, !.total = total,
                                             !.error_message = "mismatch"], TRUE)
               /\ pc' = "returned"
          ELSE IF NoInstances(all_instances)
          THEN /\ Notify([sync_result EXCEPT !.success = TRUE, !.total = total,
                                             !.error_message = "empty"], TRUE)
               /\ pc' = "returned"
          ELSE /\ sync_result' = [sync_result EXCEPT !.total = total]
               /\ UNCHANGED <<notices, notifier_log>>
               /\ pc' = "node"
    /\ UNCHANGED <<dir, next_id, cloud_assets, no_delete, protected_ips, js_assets,
                   js_by_iid, cloud_by_iid, cloud_ips, idx, processed, result, calls,
                   run, first, cloud_type, regions, ridx, all_instances,
                   api_total_count, lost_ids, synchronizer_vars>>
    /\ UNCHANGED <<client_vars, run_vars, node_vars, more_vars>>

\* _get_or_create_cloud_node, then the call of sync_assets with the options
\* of the configuration
ResolveNode ==
    /\ pc = "node"
    /\ \/ \* the node was found, or created when it has no asset yet
          /\ \/ calls' = calls
             \/ dir = << >> /\ calls' = Append(calls, Call("node", 0, "", "", TRUE))
          /\ cloud_assets' = all_instances
          /\ result' = EmptyResult(Len(all_instances))
          /\ pc' = "start"
          /\ UNCHANGED <<sync_result, notices, notifier_log>>
       \/ \* no node id: the lookup came back empty, or the creation was rejected
          /\ \/ calls' = calls
             \/ calls' = Append(calls, Call("node", 0, "", "", FALSE))
          /\ Notify([sync_result EXCEPT !.success = FALSE, !.error_message = "node"], TRUE)
          /\ pc' = "returned"
          /\ UNCHANGED <<cloud_assets, result>>
       \/ \* the node is there, then a statement of the try block raises (the
          \* sync section of the configuration is not a mapping): the outer
          \* handler, then the closing notification
          /\ calls' = calls
          /\ Notify([sync_result EXCEPT !.success = FALSE, !.error_message = "exception"], TRUE)
          /\ pc' = "returned"
          /\ UNCHANGED <<cloud_assets, result>>
    /\ UNCHANGED <<dir, next_id, no_delete, protected_ips, js_assets, js_by_iid,
                   cloud_by_iid, cloud_ips, idx, processed, run, first, cloud_type,
                   regions, ridx, all_instances, api_total_count, lost_ids,
                   synchronizer_vars>>
    /\ UNCHANGED <<client_vars, run_vars, node_vars, more_vars>>

\* step 8: the counters of sync_assets are copied into the SyncResult
MergeCounters(sr, r) ==
    [sr EXCEPT !.created = r.created, !.updated = r.updated, !.deleted = r.deleted,
               !.skipped = r.skipped, !.failed = r.failed]

\* the counters are merged and the closing notification is sent
Finish ==
    /\ pc = "done"
    /\ Notify(MergeCounters(sync_result, result), ~sync_result.success)
    /\ pc' = "returned"
    /\ UNCHANGED <<dir, next_id, cloud_assets, no_delete, protected_ips, js_assets,
                   js_by_iid, cloud_by_iid, cloud_ips, idx, processed, result, calls,
                   run, first, cloud_type, regions, ridx, all_instances,
                   api_total_count, lost_ids, synchronizer_vars>>
    /\ UNCHANGED <<client_vars, run_vars, node_vars, more_vars>>

\* the sync options the configuration may carry
SyncOptions ==
    {[no_delete |-> nd, protected_ips |-> p] : nd \in BOOLEAN, p \in {{}, {"10.0.0.1"}}}

\* the assets an account node holds when sync_cloud_to_jms starts
NodeAssetUniverse == SubSeq(AssetUniverse, 1, 4)

InitCloud ==
    /\ dir \in SubSeqs(NodeAssetUniverse, MaxAssets)
    /\ next_id = Len(AssetUniverse) + 1
    /\ cloud_assets = << >>
    /\ \E o \in SyncOptions : no_delete = o.no_delete /\ protected_ips = o.protected_ips
    /\ pc = "account"
    /\ js_assets = << >>
    /\ js_by_iid = << >>
    /\ cloud_by_iid = << >>
    /\ cloud_ips = {}
    /\ idx = 1
    /\ processed = {}
    /\ result = EmptyResult(0)
    /\ calls = << >>
    /\ run = 1
    /\ first = EmptyResult(0)
    /\ cloud_type \in {"aliyun", "huawei"}
    /\ regions \in {<<a, b>> : a \in SubSeqs(RegionUniverse[1], MaxInstances),
                              b \in SubSeqs(RegionUniverse[2], MaxInstances)}
    /\ ridx = 1
    /\ all_instances = << >>
    /\ api_total_count = 0
    /\ sync_result = NewSyncResult
    /\ lost_ids = {}
    /\ notices = << >>
    /\ notifier_log = << >>
    /\ SynchronizerIdle
    /\ ClientIdle
    /\ RunIdle
    /\ NodesIdle
    /\ MoreIdle

NextCloud ==
    FindAccount \/ ListRegion \/ CheckCounts \/ ResolveNode \/ SyncStart \/ ProcessInstance
    \/ DeleteStep \/ Finish

SpecCloud == InitCloud /\ [][NextCloud]_vars

----------------------------------------------------------------------------
(* Properties of SyncManager.sync_cloud_to_jms *)

\* C5: when the total the cloud reported with the listings differs from the
\* number of instances enumerated, sync_cloud_to_jms returns success = false
\* without a node creation and without an asset create, update or delete.
C5_CountMismatchAborts ==
    (/\ pc \notin {"regions", "check"}
     /\ api_total_count > 0
     /\ Len(all_instances) # api_total_count)
    => /\ pc = "returned"
       /\ ~sync_result.success
       /\ calls = << >>
       /\ cloud_assets = << >>

\* the account returned after a page was given up, with assets under its node
C5_Witness ==
    /\ pc = "returned"
    /\ api_total_count > 0
    /\ Len(all_instances) # api_total_count
    /\ all_instances # << >>
    /\ lost_ids # {}
    /\ dir # << >>
    /\ ~no_delete

\* C6: no delete request names an asset whose embedded instance id is that of
\* an instance the cloud holds and a failed or incomplete region listing did
\* not deliver.
C6_NoDeleteOfLostInstance ==
    \A i \in CallsOf("delete") : calls[i].iid \notin lost_ids

----------------------------------------------------------------------------
(* AssetSynchronizer.sync_assets *)

\* str.lower() on the names of the model
Lower(n) ==
    CASE n = "GW-8" -> "gw-8"
      [] n = "Aliyun" -> "aliyun"
      [] n = "PROD" -> "prod"
      [] n = "Instance_ID" -> "instance_id"
      [] n \in {"DEFAULT", "Default"} -> "default"
      [] OTHER -> n

\* _extract_instance_id_from_comment of AssetSynchronizer: the lines holding
\* one of the labels are tried in order; a line is split at its first
\* half-width colon, so a label written with a full-width colon yields
\* nothing.  "U+FF1A" stands for the full-width colon and "zh instance id"
\* for the Chinese label.
OpsExtractInstanceId(comment) ==
    LET hits == {i \in DOMAIN comment :
                    /\ \/ /\ Lower(comment[i].key) \in {"instance_id", "zh instance id"}
                          /\ comment[i].sep \in {":", "U+FF1A"}
                       \/ Lower(comment[i].key) = "instance id" /\ comment[i].sep = ":"
                    /\ comment[i].sep = ":"}
    IN IF hits = {} THEN ""
       ELSE comment[CHOOSE i \in hits : \A j \in hits : i <= j].val

\* platform.lower() in comment.lower()
MentionsPlatform(comment, platform) ==
    \E i \in DOMAIN comment :
        comment[i].key = "text" /\ comment[i].val \in {platform \o " import", platform \o " prod"}

\* _get_assets_to_delete, for one asset
OpsShouldDelete(a, ips, ids, platform) ==
    /\ MentionsPlatform(a.comment, platform)
    /\ a.address \notin ips
    /\ (OpsExtractInstanceId(a.comment) = "" \/ OpsExtractInstanceId(a.comment) \notin ids)

\* the creation decision, for one instance: it is created unless an asset of
\* the listing has its IP, its name (compared in lower case) or its instance id
NeedsCreate(x, listing) ==
    /\ x.ip # ""
    /\ x.ip \notin {listing[i].address : i \in DOMAIN listing}
    /\ ~(x.hostname # "" /\ Lower(x.hostname) \in {Lower(listing[i].name) : i \in DOMAIN listing})
    /\ ~(x.instance_id # ""
         /\ x.instance_id \in {OpsExtractInstanceId(listing[i].comment) : i \in DOMAIN listing})

\* _build_asset_info: the asset a create leaves in the directory
BuiltAsset(aid, x) ==
    Asset(aid, x.hostname, x.ip,
          IF IsWindows(x.os_type) THEN "windows" ELSE "linux",
          TargetProtocol(x.os_type), TargetPort(x.os_type), BuildComment(x))

SynchronizerNextPc(to_delete, to_create) ==
    IF to_delete # << >> THEN "sdelete"
    ELSE IF to_create # << >> THEN "screate"
    ELSE "done"

\* up to the delete and creation decisions: the platform node, the indexes of
\* the instances, the listing of the node and its indexes
SynchronizerStart ==
    /\ pc = "synchronizer"
    /\ IF cloud_assets = << >>
       THEN /\ pc' = "done"
            /\ UNCHANGED <<js_assets, result, sync_result, assets_to_delete, assets_to_create>>
       ELSE \/ \* no platform node
               /\ pc' = "done"
               /\ result' = CountFailed(result)
               /\ sync_result' = [sync_result EXCEPT !.success = FALSE]
               /\ UNCHANGED <<js_assets, assets_to_delete, assets_to_create>>
            \/ \* get_assets_by_node raised: the outer handler
               /\ pc' = "done"
               /\ sync_result' = [sync_result EXCEPT !.success = FALSE]
               /\ UNCHANGED <<js_assets, result, assets_to_delete, assets_to_create>>
            \/ \* the listing came back; an asset is cached under the first entry
               \* of its nodes, which is the node's id or a node object
               \E node_key_is_id \in BOOLEAN :
                  LET node_assets == IF node_key_is_id THEN dir ELSE << >>
                      ips == {cloud_assets[i].ip : i \in DOMAIN cloud_assets} \ {""}
                      ids == {cloud_assets[i].instance_id : i \in DOMAIN cloud_assets} \ {""}
                      to_delete == SelectSeq(node_assets,
                                       LAMBDA a : OpsShouldDelete(a, ips, ids, cloud_type))
                      to_create == SelectSeq(cloud_assets, LAMBDA x : NeedsCreate(x, dir))
                  IN /\ js_assets' = node_assets
                     /\ assets_to_delete' = to_delete
                     /\ assets_to_create' = to_create
                     /\ pc' = SynchronizerNextPc(to_delete, to_create)
                     /\ UNCHANGED <<result, sync_result>>
    /\ idx' = 1
    /\ UNCHANGED <<dir, next_id, cloud_assets, no_delete, protected_ips, js_by_iid,
                   cloud_by_iid, cloud_ips, processed, calls, run, first, cloud_type,
                   regions, ridx, all_instances, api_total_count, lost_ids, notices,
                   notifier_log, deleted_assets>>
    /\ UNCHANGED <<client_vars, run_vars, node_vars, more_vars>>

\* self.deleted_assets = assets.copy(): the asset objects, which carry no reason
NotedOnEntry(assets) == [k \in DOMAIN assets |-> DeletedAsset(assets[k].id, "")]

\* _delete_assets: the planned assets are noted as deleted on entry; then one
\* iteration
SynchronizerDelete ==
    /\ pc = "sdelete"
    /\ LET a == assets_to_delete[idx]
       IN \/ /\ dir' = Remove(dir, a.id)
             /\ result' = [result EXCEPT !.deleted = @ + 1]
             /\ calls' = Append(calls, Call("delete", a.id, OpsExtractInstanceId(a.comment), a.address, TRUE))
          \/ /\ dir' = dir
             /\ result' = CountFailed(result)
             /\ \E st \in ErrorStatuses : calls' = Append(calls, Refused(Call("delete", a.id, OpsExtractInstanceId(a.comment), a.address, FALSE), st))
    /\ deleted_assets' = IF idx = 1 THEN NotedOnEntry(assets_to_delete) ELSE deleted_assets
    /\ idx' = IF idx < Len(assets_to_delete) THEN idx + 1 ELSE 1
    /\ pc' = IF idx < Len(assets_to_delete) THEN "sdelete"
             ELSE SynchronizerNextPc(<< >>, assets_to_create)
    /\ UNCHANGED <<next_id, cloud_assets, no_delete, protected_ips, js_assets, js_by_iid,
                   cloud_by_iid, cloud_ips, processed, run, first, cloud_vars,
                   assets_to_delete, assets_to_create>>
    /\ UNCHANGED <<client_vars, run_vars, node_vars, more_vars>>

\* _create_assets_batch, one iteration
SynchronizerCreate ==
    /\ pc = "screate"
    /\ LET x == assets_to_create[idx]
       IN \/ /\ dir' = Append(dir, BuiltAsset(next_id, x))
             /\ next_id' = next_id + 1
             /\ result' = [result EXCEPT !.created = @ + 1]
             /\ calls' = Append(calls, Call("create", next_id, x.instance_id, x.ip, TRUE))
          \/ /\ result' = CountFailed(result)
             /\ \E st \in ErrorStatuses : calls' = Append(calls, Refused(Call("create", 0, x.instance_id, x.ip, FALSE), st))
             /\ UNCHANGED <<dir, next_id>>
    /\ idx' = IF idx < Len(assets_to_create) THEN idx + 1 ELSE 1
    /\ pc' = IF idx < Len(assets_to_create) THEN "screate" ELSE "done"
    /\ UNCHANGED <<cloud_assets, no_delete, protected_ips, js_assets, js_by_iid,
                   cloud_by_iid, cloud_ips, processed, run, first, cloud_vars,
                   synchronizer_vars>>
    /\ UNCHANGED <<client_vars, run_vars, node_vars, more_vars>>

\* the synchronizer is built with a cloud_config carrying the options
InitSynchronizer ==
    /\ dir \in SubSeqs(AssetUniverse, MaxAssets)
    /\ next_id = Len(AssetUniverse) + 1
    /\ cloud_assets \in SubSeqs(InstanceUniverse, MaxInstances)
    /\ no_delete \in BOOLEAN
    /\ protected_ips \in ProtectedChoices
    /\ pc = "synchronizer"
    /\ js_assets = << >>
    /\ js_by_iid = << >>
    /\ cloud_by_iid = << >>
    /\ cloud_ips = {}
    /\ idx = 1
    /\ processed = {}
    /\ result = EmptyResult(Len(cloud_assets))
    /\ calls = << >>
    /\ run = 1
    /\ first = EmptyResult(0)
    /\ cloud_type \in {"aliyun", "huawei"}
    /\ regions = << >>
    /\ ridx = 1
    /\ all_instances = << >>
    /\ api_total_count = 0
    /\ sync_result = NewSyncResult
    /\ lost_ids = {}
    /\ notices = << >>
    /\ notifier_log = << >>
    /\ SynchronizerIdle
    /\ ClientIdle
    /\ RunIdle
    /\ NodesIdle
    /\ MoreIdle

NextSynchronizer == SynchronizerStart \/ SynchronizerDelete \/ SynchronizerCreate

SpecSynchronizer == InitSynchronizer /\ [][NextSynchronizer]_vars

----------------------------------------------------------------------------
(* Properties of AssetSynchronizer.sync_assets *)

\* C2: AssetSynchronizer.sync_assets, built with a cloud_config listing
\* protected_ips, never calls delete_asset on an asset whose IP is protected.
C2_SynchronizerSparesProtected ==
    \A i \in DOMAIN calls :
        calls[i].op = "delete" => calls[i].addr \notin protected_ips

\* C4: with no_delete set in its cloud_config, AssetSynchronizer.sync_assets
\* issues no delete_asset call.
C4_SynchronizerNoDelete ==
    no_delete => \A i \in DOMAIN calls : calls[i].op # "delete"

----------------------------------------------------------------------------
(* Matching and planning of AssetSyncManager.sync_assets *)

CreatesFor(iid) == {i \in DOMAIN calls : calls[i].op = "create" /\ calls[i].iid = iid}

\* an asset of the listing carries the instance's IP or, ignoring letter
\* case, its name
SharesIpOrName(a, x) ==
    \/ (CloudIp(x) # "" /\ a.address = CloudIp(x))
    \/ Lower(a.name) = Lower(CloudName(x))

\* C11: an instance whose id is not in the instance-id index but whose IP is
\* the address of an asset of the node (or whose hostname is an asset's name,
\* ignoring case) is matched to that asset: no create is issued for it.
C11_IpOrHostnameMatchNoCreate ==
    (Done /\ Listed) =>
        \A i \in DOMAIN cloud_by_iid :
            (/\ cloud_by_iid[i].instance_id \notin DOMAIN js_by_iid
             /\ \E j \in DOMAIN js_assets : SharesIpOrName(js_assets[j], cloud_by_iid[i]))
            => CreatesFor(cloud_by_iid[i].instance_id) = {}

\* the instance matches no asset of the listing, by id, IP or name
Unmatched(x) ==
    /\ x.instance_id \notin DOMAIN js_by_iid
    /\ \A j \in DOMAIN js_assets : ~SharesIpOrName(js_assets[j], x)

\* C12: every instance handed to sync_assets that has an IP and matches no
\* asset gets a create call, also when its instance_id is absent (instance
\* ids unique, so that no instance is shadowed by another).
C12_UnmatchedInstanceCreated ==
    (Done /\ Listed /\ UniqueIds(cloud_assets)) =>
        \A i \in DOMAIN cloud_assets :
            (CloudIp(cloud_assets[i]) # "" /\ Unmatched(cloud_assets[i]))
            => \E k \in DOMAIN calls :
                   /\ calls[k].op = "create"
                   /\ calls[k].iid = cloud_assets[i].instance_id
                   /\ calls[k].addr = CloudIp(cloud_assets[i])

\* the asset is claimed by a match: it was matched by instance id, or an
\* instance without an id match carries its IP or name
Claimed(a) ==
    \/ a.id \in processed
    \/ \E i \in DOMAIN cloud_assets :
          /\ cloud_assets[i].instance_id \notin DOMAIN js_by_iid
          /\ SharesIpOrName(a, cloud_assets[i])

DeletesOf(aid) == {k \in DOMAIN calls : calls[k].op = "delete" /\ calls[k].id = aid}

\* no two assets of the listing embed the same instance id
UniqueEmbeddedIds ==
    \A j \in DOMAIN js_assets :
        ExtractInstanceId(js_assets[j].comment) # "" => Indexed(js_assets[j])

\* C13: with no_delete false, every asset of the node that no match claimed
\* and whose address is not protected gets exactly one delete call (already
\* with unique instance ids on both sides).
C13_UnclaimedAssetDeletedOnce ==
    (Done /\ Listed /\ ~no_delete /\ UniqueIds(cloud_assets) /\ UniqueEmbeddedIds) =>
        \A j \in DOMAIN js_assets :
            (~Claimed(js_assets[j]) /\ js_assets[j].address \notin protected_ips)
            => Cardinality(DeletesOf(js_assets[j].id)) = 1

\* the fields of a matched asset that differ from the instance's target state
DifferingFields(a, x) ==
    (IF a.address # CloudIp(x) THEN {"ip"} ELSE {})
    \cup (IF a.name # CloudName(x) THEN {"name"} ELSE {})
    \cup (IF IsWindows(a.platform) # IsWindows(CloudPlatform(x)) THEN {"platform"} ELSE {})
    \cup (IF \/ a.protocol # TargetProtocol(CloudPlatform(x))
             \/ a.port # TargetPort(CloudPlatform(x))
          THEN {"port"} ELSE {})

UpdatesOf(aid, iid) ==
    {k \in DOMAIN calls : calls[k].op = "update" /\ calls[k].id = aid /\ calls[k].iid = iid}

\* C14: a matched asset is updated if and only if its address, name,
\* platform or protocol/port differs from the instance's target state, with
\* one reason per differing field.
C14_UpdateIffFieldDiffers ==
    (Done /\ Listed) =>
        \A i \in DOMAIN cloud_by_iid :
            cloud_by_iid[i].instance_id \in DOMAIN js_by_iid =>
                LET x == cloud_by_iid[i]
                    a == js_by_iid[x.instance_id]
                IN /\ (UpdatesOf(a.id, x.instance_id) # {}) <=> (DifferingFields(a, x) # {})
                   /\ Len(UpdateReasons(a, x)) = Cardinality(DifferingFields(a, x))

\* the matched pairs the loop of step 4.1 counts in skipped
MatchedSkipped ==
    {i \in DOMAIN cloud_by_iid :
        /\ cloud_by_iid[i].instance_id \in DOMAIN js_by_iid
        /\ ~NeedUpdate(js_by_iid[cloud_by_iid[i].instance_id], cloud_by_iid[i])}

\* the assets the delete pass would delete with no_delete off
DeleteCandidates ==
    {j \in DOMAIN js_assets :
        Candidate(js_assets[j]) /\ ~IsProtected(js_assets[j], protected_ips)}

\* C15: with no_delete set, every asset that would have been deleted is
\* counted in skipped instead: skipped grows by one per candidate.
C15_NoDeleteCountsSkipped ==
    (Done /\ Listed /\ no_delete) =>
        result.skipped = Cardinality(MatchedSkipped) + Cardinality(DeleteCandidates)

FailedCalls == {k \in DOMAIN calls : ~calls[k].ok}

\* every item the run planned from its listing has had its directory call
Attempted ==
    /\ \A i \in DOMAIN cloud_by_iid :
          LET x == cloud_by_iid[i]
              a == Match(x, js_by_iid, js_assets)
          IN IF a = NoAsset
             THEN CreatesFor(x.instance_id) # {}
             ELSE NeedUpdate(a, x) => UpdatesOf(a.id, x.instance_id) # {}
    /\ DeleteEnabled(no_delete) =>
          \A j \in DeleteCandidates : DeletesOf(js_assets[j].id) # {}

\* C16: a create, update or delete call that fails for one item adds one to
\* failed and does not keep sync_assets from attempting every other planned
\* item.
C16_ItemFailureIsolated ==
    /\ Listed => result.failed = Cardinality(FailedCalls)
    /\ (Done /\ Listed) => Attempted

\* a failed call was followed by the call of a sibling item
C16_Witness ==
    /\ Done /\ Listed
    /\ \E k \in FailedCalls : \E m \in DOMAIN calls : m > k

\* C17: once a create, update or delete call of the run has been refused with
\* a 401, the run issues no further create, update or delete call.
C17_AuthFailureAborts ==
    \A k \in DOMAIN calls : calls[k].status = 401 => k = Len(calls)

----------------------------------------------------------------------------
(* JumpServerClient._api_request under its retry decorator *)

max_retries == 3

retry_interval == 2

MaxRequests == 2

\* the directory answered with an HTTP status
Response(st) == [exception |-> "", status |-> st]

\* session.request raised a requests.RequestException (timeout, refused or
\* reset connection): there is no response
TransportError == [exception |-> "RequestException", status |-> 0]

AttemptOutcomes == {Response(st) : st \in {200, 400, 401, 429, 500, 503}} \cup {TransportError}

\* what one execution of the body of _api_request raises, "" when it returns
RaisedBy(r) ==
    IF r.exception # "" THEN r.exception
    ELSE IF r.status >= 400
    THEN (IF r.status = 401 THEN "JumpServerAuthError" ELSE "JumpServerAPIError")
    ELSE ""

\* the decorator is applied with exceptions=(requests.RequestException,);
\* the JumpServer errors derive from JmsSyncError
Retried(exc) == exc = "RequestException"

RetriesExhaustedLate(count) == count > max_retries

RetriesExhausted(count) == count >= max_retries

\* all the variables of the reconciliation side
sync_vars == <<dir, next_id, cloud_assets, no_delete, protected_ips, pc, js_assets,
               js_by_iid, cloud_by_iid, cloud_ips, idx, processed, result, calls,
               run, first, cloud_vars, synchronizer_vars>>

\* one pass of the wrapper's loop: the body of _api_request runs once, then
\* the wrapper returns, lets the exception through, or sleeps and goes round
Attempt ==
    /\ client_pc = "call"
    /\ \E r \in AttemptOutcomes :
          /\ responses' = Append(responses, r)
          /\ IF RaisedBy(r) = ""
             THEN /\ client_pc' = "returned"
                  /\ served' = served + 1
                  /\ UNCHANGED <<raised, retry_count, current_interval>>
             ELSE IF Retried(RaisedBy(r)) /\ ~RetriesExhausted(retry_count)
             THEN /\ retry_count' = retry_count + 1
                  /\ current_interval' = (current_interval * 3) \div 2
                  /\ UNCHANGED <<client_pc, raised, served>>
             ELSE /\ client_pc' = "raised"
                  /\ raised' = RaisedBy(r)
                  /\ served' = served + 1
                  /\ UNCHANGED <<retry_count, current_interval>>
    /\ UNCHANGED <<request, sync_vars, run_vars, node_vars, more_vars>>

\* the caller issues its next request: the wrapper starts afresh
NewRequest ==
    /\ client_pc \in {"returned", "raised"}
    /\ served < MaxRequests
    /\ request' \in {"GET", "POST", "PUT", "DELETE"}
    /\ responses' = << >>
    /\ retry_count' = 0
    /\ current_interval' = retry_interval * 8
    /\ client_pc' = "call"
    /\ raised' = ""
    /\ UNCHANGED <<served, sync_vars, run_vars, node_vars, more_vars>>

\* sync_assets, sync_cloud_to_jms and the synchronizer are not running
SyncIdle ==
    /\ dir = << >>
    /\ next_id = Len(AssetUniverse) + 1
    /\ cloud_assets = << >>
    /\ no_delete = FALSE
    /\ protected_ips = {}
    /\ pc = "idle"
    /\ js_assets = << >>
    /\ js_by_iid = << >>
    /\ cloud_by_iid = << >>
    /\ cloud_ips = {}
    /\ idx = 1
    /\ processed = {}
    /\ result = EmptyResult(0)
    /\ calls = << >>
    /\ run = 1
    /\ first = EmptyResult(0)
    /\ CloudIdle
    /\ SynchronizerIdle

InitClient ==
    /\ SyncIdle
    /\ RunIdle
    /\ NodesIdle
    /\ MoreIdle
    /\ request \in {"GET", "POST", "PUT", "DELETE"}
    /\ responses = << >>
    /\ retry_count = 0
    /\ current_interval = retry_interval * 8
    /\ client_pc = "call"
    /\ raised = ""
    /\ served = 0

NextClient == Attempt \/ NewRequest

SpecClient == InitClient /\ [][NextClient]_vars

\* each attempt comes to an end (the request carries timeout=30) and the
\* wrapper goes on
SpecClientFair == SpecClient /\ WF_vars(Attempt)

----------------------------------------------------------------------------
(* Properties of the retry wrapper *)

Surfaced == client_pc = "raised"

RetryableStatus(st) == st = 429 \/ st >= 500

\* C18: a directory call answered with a 5xx or a rate-limit response is
\* retried by the client before the failure reaches the caller.
C18_ServerErrorRetried ==
    Surfaced =>
        \A k \in DOMAIN responses :
            RetryableStatus(responses[k].status) => k < Len(responses)

AllTransport == \A k \in DOMAIN responses : responses[k] = TransportError

C19_Bound ==
    /\ Len(responses) <= max_retries + 1
    /\ (Surfaced /\ raised = "RequestException") =>
          (Len(responses) = max_retries + 1 /\ AllTransport)
    /\ (client_pc = "call" /\ AllTransport) => Len(responses) <= max_retries

\* C19: a request that keeps failing with a transport error is attempted at
\* most max_retries + 1 = 4 times, then the error is raised to the caller;
\* the retry loop always comes to an end.
C19_BoundedRetries ==
    /\ [](max_retries + 1 = 4 /\ C19_Bound)
    /\ (client_pc = "call") ~> (client_pc # "call")

\* the fourth transport error in a row was raised to the caller
C19_Witness ==
    /\ Surfaced
    /\ raised = "RequestException"
    /\ Len(responses) = 4
    /\ AllTransport

----------------------------------------------------------------------------
(* SyncManager.run_with_retry and SyncManager.run *)

MaxClouds == 2

MaxRetriesArg == 2

\* an entry of config['clouds'].  SyncManager.__init__ has built a client
\* for every enabled entry, so each of them is a mapping with a known type
CloudEntry(t, n, en) == [type |-> t, name |-> n, enabled |-> en]

CloudUniverse ==
    << CloudEntry("aliyun", "prod", TRUE),
       CloudEntry("huawei", "hk", TRUE),
       CloudEntry("aliyun", "test", TRUE),
       CloudEntry("aliyun", "old", FALSE),
       CloudEntry("", "draft", FALSE) >>

EnabledClouds(list) == SelectSeq(list, LAMBDA c : c.enabled)

OfType(list, t) == SelectSeq(list, LAMBDA c : c.type = t)

NotOfType(list, t) == SelectSeq(list, LAMBDA c : c.type # t)

RECURSIVE GroupByType(_)
\* platform_types, in the order its two nested loops visit it: the types in
\* order of first appearance, the platforms of a type in list order
GroupByType(list) ==
    IF list = << >> THEN << >>
    ELSE OfType(list, Head(list).type) \o GroupByType(NotOfType(list, Head(list).type))

\* the entries without a type or a name are skipped
PlatformsOf(list) == GroupByType(SelectSeq(list, LAMBDA c : c.type # "" /\ c.name # ""))

PlatformKey(c) == c.type \o "-" \o c.name

RunResult(ok, err, res) == [success |-> ok, error |-> err, results |-> res]

\* dict.get(key) with the None default
Get(d, key) == IF key \in DOMAIN d THEN d[key] ELSE "None"

\* run_with_retry replaces a missing or None errors field with []
WithErrors(d) ==
    IF Get(d, "errors") = "None"
    THEN [k \in DOMAIN d \cup {"errors"} |-> IF k = "errors" THEN << >> ELSE d[k]]
    ELSE d

\* what run_with_retry returns when the loop runs out (success is 0 there)
AllRetriesFailed == [success |-> FALSE, errors |-> <<"all retries failed">>]

Put(d, key, v) == [k \in DOMAIN d \cup {key} |-> IF k = key THEN v ELSE d[k]]

\* the loop of run_with_retry enters run(): the enabled clouds are read and
\* grouped, or run() returns at once.  Nothing inside the try block of
\* run() raises on such a configuration: its outer handler does not run
RunStart ==
    /\ run_pc = "loop"
    /\ attempt <= max_retries_arg
    /\ run_count' = run_count + 1
    /\ sync_results' = << >>
    /\ pidx' = 1
    /\ IF EnabledClouds(clouds) = << >>
       THEN /\ last_run' = RunResult(TRUE, "", << >>)
            /\ platforms' = << >>
            /\ run_pc' = "decide"
       ELSE /\ platforms' = PlatformsOf(EnabledClouds(clouds))
            /\ run_pc' = IF PlatformsOf(EnabledClouds(clouds)) = << >> THEN "finish" ELSE "platforms"
            /\ UNCHANGED last_run
    /\ UNCHANGED <<clouds, max_retries_arg, attempt, returned, args_output, exit_code,
                   sync_vars, client_vars, node_vars, more_vars>>

\* the SyncResult of one account, as far as run() and main() read it: the
\* sync went through, went through with one failed asset operation, or was
\* aborted before any asset operation
PlatformOutcomes ==
    {[success |-> TRUE, failed |-> 0], [success |-> TRUE, failed |-> 1],
     [success |-> FALSE, failed |-> 0]}

\* a loop that gives up at the first account that was not synced
AfterPlatformStop(o, nextpc) == IF o.success THEN nextpc ELSE "finish"

\* the result is stored, whatever it says, and the loop goes on; an
\* exception of sync_cloud_to_jms is stored as a failed result in the same way
AfterPlatform(o, nextpc) == nextpc

\* one platform of the loop: sync_cloud_to_jms returns its SyncResult
SyncPlatform ==
    /\ run_pc = "platforms"
    /\ \E o \in PlatformOutcomes :
          /\ sync_results' = Put(sync_results, PlatformKey(platforms[pidx]), o)
          /\ run_pc' = AfterPlatform(o, IF pidx < Len(platforms) THEN "platforms" ELSE "finish")
    /\ pidx' = IF run_pc' = "platforms" THEN pidx + 1 ELSE 1
    /\ UNCHANGED <<clouds, max_retries_arg, attempt, platforms, last_run, returned,
                   run_count, args_output, exit_code, sync_vars, client_vars, node_vars, more_vars>>

\* run() sums up and returns
RunFinish ==
    /\ run_pc = "finish"
    /\ last_run' = RunResult(TRUE, "", sync_results)
    /\ run_pc' = "decide"
    /\ UNCHANGED <<clouds, max_retries_arg, attempt, platforms, pidx, sync_results,
                   returned, run_count, args_output, exit_code, sync_vars, client_vars, node_vars, more_vars>>

\* run_with_retry looks at what run() returned
RunDecide ==
    /\ run_pc = "decide"
    /\ LET r == WithErrors(last_run)
       IN IF r.errors = << >> \/ r.success
          THEN /\ returned' = r
               /\ run_pc' = "returned"
               /\ UNCHANGED attempt
          ELSE /\ attempt' = attempt + 1
               /\ IF attempt + 1 <= max_retries_arg
                  THEN /\ run_pc' = "loop"
                       /\ UNCHANGED returned
                  ELSE /\ run_pc' = "returned"
                       /\ returned' = AllRetriesFailed
    /\ UNCHANGED <<clouds, max_retries_arg, platforms, pidx, sync_results, last_run,
                   run_count, args_output, exit_code, sync_vars, client_vars, node_vars, more_vars>>

\* main() up to the call of run_with_retry: the configuration file is
\* missing, or SyncManager(config) raises, or the manager is built
CliStart ==
    /\ run_pc = "main"
    /\ \/ run_pc' = "exited" /\ exit_code' = 1
       \/ run_pc' = "loop" /\ exit_code' = exit_code
    /\ UNCHANGED <<clouds, max_retries_arg, attempt, platforms, pidx, sync_results,
                   last_run, returned, run_count, args_output, sync_vars, client_vars, node_vars, more_vars>>

\* result.get('results', {})
ResultsOf(d) == IF "results" \in DOMAIN d THEN d.results ELSE << >>

RECURSIVE SumFailed(_, _)
\* total_failed, summed over the accounts ks of the results
SumFailed(res, ks) ==
    IF ks = {} THEN 0
    ELSE LET k == CHOOSE x \in ks : TRUE
         IN res[k].failed + SumFailed(res, ks \ {k})

\* save_result hands the dict to json.dump, which raises TypeError on the
\* SyncResult objects held in results
SaveRaises(d) == ResultsOf(d) # << >>

\* the code main() exits with once run_with_retry has returned d
ExitCode(d, out) ==
    IF out /\ SaveRaises(d) THEN 1
    ELSE IF SumFailed(ResultsOf(d), DOMAIN ResultsOf(d)) > 0 THEN 2
    ELSE 0

\* main() after run_with_retry: the totals, the output file, the exit
CliExit ==
    /\ run_pc = "returned"
    /\ exit_code' = ExitCode(returned, args_output)
    /\ run_pc' = "exited"
    /\ UNCHANGED <<clouds, max_retries_arg, attempt, platforms, pidx, sync_results,
                   last_run, returned, run_count, args_output, sync_vars, client_vars, node_vars, more_vars>>

InitRun ==
    /\ SyncIdle
    /\ ClientIdle
    /\ NodesIdle
    /\ MoreIdle
    /\ clouds \in SubSeqs(CloudUniverse, MaxClouds)
    /\ max_retries_arg \in 0..MaxRetriesArg
    /\ attempt = 0
    /\ run_pc = "main"
    /\ platforms = << >>
    /\ pidx = 1
    /\ sync_results = << >>
    /\ last_run = << >>
    /\ returned = << >>
    /\ run_count = 0
    /\ args_output \in BOOLEAN
    /\ exit_code = -1

NextRun == CliStart \/ RunStart \/ SyncPlatform \/ RunFinish \/ RunDecide \/ CliExit

SpecRun == InitRun /\ [][NextRun]_vars

----------------------------------------------------------------------------
(* Properties of run_with_retry *)

\* the sync of one of the platforms came back with success False
PlatformFailed(r) == \E k \in DOMAIN r.results : ~r.results[k].success

\* C20: run_with_retry runs the whole sync again when a run fails; it stops
\* at the first successful run or after max_retries retries, so that run()
\* is entered at most max_retries + 1 times.
C20_RerunsFailedRun ==
    /\ run_count <= max_retries_arg + 1
    /\ run_pc \in {"returned", "exited"} /\ run_count > 0 =>
          \/ last_run.success /\ ~PlatformFailed(last_run)
          \/ run_count = max_retries_arg + 1

----------------------------------------------------------------------------
(* Properties of main() *)

Exited == run_pc = "exited"

\* main() left before run_with_retry was called
TopLevelError == Exited /\ run_count = 0

AnyAssetFailed == \E k \in DOMAIN ResultsOf(returned) : ResultsOf(returned)[k].failed > 0

\* C21: main() exits with 0 only when every account synced successfully,
\* with 2 when an asset operation failed in some account, and with 1 on a
\* top-level error.
C21_ExitCodes ==
    Exited =>
        /\ TopLevelError => exit_code = 1
        /\ exit_code = 0 => (~TopLevelError /\ ~PlatformFailed(returned) /\ ~AnyAssetFailed)
        /\ (AnyAssetFailed /\ ~(args_output /\ SaveRaises(returned))) => exit_code = 2

----------------------------------------------------------------------------
(* Notification and abort paths of SyncManager.sync_cloud_to_jms *)

Returned == pc = "returned"

\* the success flag and the counters sync_cloud_to_jms hands back, as the
\* path it took fixes them
ExpectedSuccess == sync_result.error_message \in {"", "empty"}

SyncAssetsRan == sync_result.error_message = "" /\ Returned

\* C22: a failure or an exception inside the notifier leaves the returned
\* SyncResult (success flag and counters) as it was and does not come out of
\* sync_cloud_to_jms.
C22_NotifierFailureContained ==
    Returned =>
        /\ sync_result.success = ExpectedSuccess
        /\ IF SyncAssetsRan
           THEN sync_result = MergeCounters(sync_result, result)
           ELSE sync_result = MergeCounters(sync_result, EmptyResult(0))

\* the notifier raised in a run that had a failed asset operation
C22_Witness ==
    /\ Returned
    /\ "raised" \in Range(notifier_log)
    /\ sync_result.success
    /\ sync_result.failed > 0
    /\ sync_result.created > 0

\* C23: an account sync that returns success = false carries an error
\* message and has called the notifier with is_failure = true before it
\* returned, on every abort path.
C23_AbortNotified ==
    (Returned /\ ~sync_result.success) =>
        /\ sync_result.error_message # ""
        /\ TRUE \in Range(notices)

----------------------------------------------------------------------------
(* Properties of SyncManager.run *)

EnabledKeys == {PlatformKey(clouds[i]) : i \in {j \in DOMAIN clouds : clouds[j].enabled}}

RunOver == run_count > 0 /\ run_pc \in {"decide", "returned", "exited"}

\* C24: in run(), an account whose sync was aborted or raised does not keep
\* any other enabled account from being synced, and every enabled account
\* has its own entry in results.
C24_AccountsIsolated ==
    RunOver =>
        /\ DOMAIN last_run.results = EnabledKeys
        /\ Cardinality(EnabledKeys) = Len(EnabledClouds(clouds))

\* the first of two accounts was aborted and the second was synced
C24_Witness ==
    /\ RunOver
    /\ Len(platforms) = 2
    /\ ~last_run.results[PlatformKey(platforms[1])].success
    /\ last_run.results[PlatformKey(platforms[2])].success

-----------------------------------------------------------------------------
(* Node resolution: JmsNodeManager.init_nodes behind
   SyncManager._get_or_create_cloud_node, and
   AssetSynchronizer._ensure_basic_nodes / _get_node_by_path *)

\* id of the root node of the directory
RootId == 1

\* resolutions of the same account within one run
MaxResolutions == 2

\* a node of the directory
Node(i, p, v) == [id |-> i, parent |-> p, value |-> v]

\* a request about nodes sent to the directory; list requests carry no value
NodeRequest(o, p, v, k) == [op |-> o, parent |-> p, value |-> v, ok |-> k]

\* the root as the directory lists it
RootNode == Node(RootId, 0, "Default")

\* the directories a resolution can start from: the root alone, or with a
\* provider-type node, or with an account node under that one; the names the
\* directory holds may differ in letter case from the configured ones
Directories ==
    {<<RootNode>>}
    \cup {<<RootNode, Node(2, RootId, t)>> : t \in {"aliyun", "Aliyun"}}
    \cup {<<RootNode, Node(2, RootId, t), Node(3, 2, m)>> :
            t \in {"aliyun", "Aliyun"}, m \in {"prod", "PROD"}}

CloudNames == {"prod", "test"}

\* the children of p named exactly v, in listing order
ChildrenNamed(p, v) == SelectSeq(nodes, LAMBDA n : n.parent = p /\ n.value = v)

\* the outcome of JmsNodeManager._get_or_create_child_node(parent, value) with
\* the children listing answered or not and the create accepted or not:
\* the requests it sent, the node it created (0 when none) and the id it
\* returned (0 when it raised)
ChildNode(p, v, listed, accepted) ==
    IF listed /\ ChildrenNamed(p, v) # << >>
    THEN [requests |-> <<NodeRequest("list", p, "", TRUE)>>,
          created |-> 0,
          id |-> ChildrenNamed(p, v)[1].id]
    ELSE [requests |-> <<NodeRequest("list", p, "", listed),
                         NodeRequest("create", p, v, accepted)>>,
          created |-> IF accepted THEN next_node ELSE 0,
          id |-> IF accepted THEN next_node ELSE 0]

\* what SyncManager._get_or_create_cloud_node hands back when init_nodes
\* raised after the provider-type node sn was resolved
AfterInitNodesRaised(sn) == 0

\* one call of _get_or_create_child_node inside init_nodes: the provider-type
\* node under the root first, the account node under it next; the account
\* node is then read back from nodes_session by get_node_by_path
GetOrCreateChildNode ==
    /\ resolver = "manager"
    /\ node_pc \in {"second", "third"}
    /\ \E listed \in BOOLEAN, accepted \in BOOLEAN :
         LET p == IF node_pc = "second" THEN RootId ELSE second_node
             v == IF node_pc = "second" THEN cloud_type ELSE cloud_name
             r == ChildNode(p, v, listed, accepted)
         IN /\ node_requests' = node_requests \o r.requests
            /\ nodes' = IF r.created # 0 THEN Append(nodes, Node(r.created, p, v)) ELSE nodes
            /\ next_node' = IF r.created # 0 THEN next_node + 1 ELSE next_node
            /\ IF r.id = 0
               THEN /\ node_pc' = "returned"
                    /\ node_id' = AfterInitNodesRaised(second_node)
                    /\ UNCHANGED second_node
               ELSE IF node_pc = "second"
               THEN /\ node_pc' = "third"
                    /\ second_node' = r.id
                    /\ UNCHANGED node_id
               ELSE /\ node_pc' = "returned"
                    /\ node_id' = r.id
                    /\ UNCHANGED second_node
            /\ node_cache' = IF r.id # 0 /\ node_pc = "third"
                              THEN <<RootId, second_node, r.id>>
                              ELSE node_cache
    /\ UNCHANGED <<cloud_name, resolver, all_nodes, path_len, level, parent_id,
                   current_node, resolutions>>
    /\ UNCHANGED <<sync_vars, client_vars, run_vars, more_vars>>

\* the segments of the path DEFAULT/<type>/<name>
PathPartName(i) == IF i = 1 THEN "DEFAULT" ELSE IF i = 2 THEN cloud_type ELSE cloud_name

\* the nodes of listing that _get_node_by_path takes for segment part under
\* parent p: the name is compared in lower case, and the parent is not
\* looked at for the first segment, without a parent, or for a parentless node
PathMatches(listing, i, p) ==
    SelectSeq(listing, LAMBDA n :
        /\ Lower(n.value) = Lower(PathPartName(i))
        /\ (i = 1 \/ p = 0 \/ n.parent = p \/ n.parent = 0))

\* the same lookup in the listing fetched again after a failed create
PathMatchesAgain(listing, i, p) ==
    SelectSeq(listing, LAMBDA n :
        /\ Lower(n.value) = Lower(PathPartName(i))
        /\ (i = 1 \/ p = 0 \/ n.parent = p))

\* get_nodes answers with the nodes of the directory, or with none of them
\* when its requests fail
GetNodes(ok) == IF ok THEN nodes ELSE << >>

\* _get_node_by_path up to its loop: the cached node of the path, or the
\* listing the loop will work on
GetNodeByPath ==
    /\ resolver = "synchronizer"
    /\ node_pc = "path"
    /\ IF path_len \in DOMAIN node_cache
       THEN /\ node_id' = node_cache[path_len]
            /\ node_pc' = "returned"
            /\ UNCHANGED <<node_requests, all_nodes, level, parent_id, current_node>>
       ELSE \E ok \in BOOLEAN :
            /\ node_requests' = Append(node_requests, NodeRequest("nodes", 0, "", ok))
            /\ all_nodes' = GetNodes(ok)
            /\ level' = 1
            /\ parent_id' = 0
            /\ current_node' = 0
            /\ node_pc' = "part"
            /\ UNCHANGED node_id
    /\ UNCHANGED <<nodes, next_node, cloud_name, resolver, second_node, path_len,
                   node_cache, resolutions>>
    /\ UNCHANGED <<sync_vars, client_vars, run_vars, more_vars>>

\* _get_node_by_path hands cn back to _ensure_basic_nodes, which keeps it or
\* asks for the path one segment shorter
PathReturn(cn) ==
    IF cn # 0
    THEN node_id' = cn /\ node_pc' = "returned" /\ UNCHANGED path_len
    ELSE IF path_len > 1
    THEN path_len' = path_len - 1 /\ node_pc' = "path" /\ UNCHANGED node_id
    ELSE node_id' = 0 /\ node_pc' = "returned" /\ UNCHANGED path_len

\* the loop of _get_node_by_path goes on with node cn as the parent
PathContinue(cn) ==
    /\ current_node' = cn
    /\ parent_id' = cn
    /\ IF level < path_len
       THEN level' = level + 1 /\ UNCHANGED <<node_id, node_pc, path_len>>
       ELSE level' = level /\ PathReturn(cn)

\* one round of the loop of _get_node_by_path, for the segment at level:
\* from the cache, else found in the listing, else created; after a failed
\* create the listing is fetched again and searched once more
PathPart ==
    /\ resolver = "synchronizer"
    /\ node_pc = "part"
    /\ IF level \in DOMAIN node_cache
       THEN /\ PathContinue(node_cache[level])
            /\ UNCHANGED <<nodes, next_node, node_requests, all_nodes, node_cache>>
       ELSE IF PathMatches(all_nodes, level, parent_id) # << >>
       THEN /\ PathContinue(PathMatches(all_nodes, level, parent_id)[1].id)
            /\ node_cache' = Append(node_cache, PathMatches(all_nodes, level, parent_id)[1].id)
            /\ UNCHANGED <<nodes, next_node, node_requests, all_nodes>>
       ELSE \E accepted \in BOOLEAN, ok \in BOOLEAN :
            LET create == NodeRequest("create", parent_id, PathPartName(level), accepted)
                again == PathMatchesAgain(GetNodes(ok), level, parent_id)
            IN IF accepted
               THEN /\ node_requests' = Append(node_requests, create)
                    /\ nodes' = Append(nodes, Node(next_node, parent_id, PathPartName(level)))
                    /\ next_node' = next_node + 1
                    /\ node_cache' = Append(node_cache, next_node)
                    /\ PathContinue(next_node)
                    /\ UNCHANGED all_nodes
               ELSE /\ node_requests' = node_requests \o
                            <<create, NodeRequest("nodes", 0, "", ok)>>
                    /\ all_nodes' = GetNodes(ok)
                    /\ UNCHANGED <<nodes, next_node>>
                    /\ IF again # << >>
                       THEN /\ node_cache' = Append(node_cache, again[1].id)
                            /\ PathContinue(again[1].id)
                       ELSE /\ PathReturn(current_node)
                            /\ UNCHANGED <<node_cache, level, parent_id, current_node>>
    /\ UNCHANGED <<cloud_name, resolver, second_node, resolutions>>
    /\ UNCHANGED <<sync_vars, client_vars, run_vars, more_vars>>

\* the account is resolved once more in the same run: SyncManager calls
\* _get_or_create_cloud_node, AssetSynchronizer calls _ensure_basic_nodes
ResolveAgain ==
    /\ node_pc = "returned"
    /\ resolutions < MaxResolutions
    /\ resolutions' = resolutions + 1
    /\ node_pc' = IF resolver = "manager" THEN "second" ELSE "path"
    /\ path_len' = 3
    /\ second_node' = 0
    /\ node_id' = 0
    /\ UNCHANGED <<nodes, next_node, cloud_name, resolver, node_requests, all_nodes,
                   level, parent_id, current_node, node_cache>>
    /\ UNCHANGED <<sync_vars, client_vars, run_vars, more_vars>>

\* sync_cloud_to_jms gives the account up when no node id came back
AccountAborted == node_pc = "returned" /\ node_id = 0

InitNodes ==
    /\ SyncIdle
    /\ ClientIdle
    /\ RunIdle
    /\ MoreIdle
    /\ nodes \in Directories
    /\ next_node = Len(nodes) + 1
    /\ cloud_name \in CloudNames
    /\ resolver \in {"manager", "synchronizer"}
    /\ node_pc = IF resolver = "manager" THEN "second" ELSE "path"
    /\ node_requests = << >>
    /\ second_node = 0
    /\ node_id = 0
    /\ all_nodes = << >>
    /\ path_len = 3
    /\ level = 0
    /\ parent_id = 0
    /\ current_node = 0
    /\ node_cache = IF resolver = "manager" THEN <<RootId>> ELSE << >>
    /\ resolutions = 1

NextNodes == GetOrCreateChildNode \/ GetNodeByPath \/ PathPart \/ ResolveAgain

SpecNodes == InitNodes /\ [][NextNodes]_vars

-----------------------------------------------------------------------------
(* Properties of node resolution *)

\* the create requests sent so far
CreateRequests == SelectSeq(node_requests, LAMBDA q : q.op = "create")

\* the resolver has returned after the directory refused to create the
\* account node under the resolved provider-type node
AccountNodeCreateFailed ==
    /\ node_pc = "returned"
    /\ second_node # 0
    /\ node_requests # << >>
    /\ node_requests[Len(node_requests)] = NodeRequest("create", second_node, cloud_name, FALSE)

\* C25: when creating the account-name node fails, the resolution hands back
\* the provider-type node it had resolved, and the account sync goes on under
\* that node instead of being given up
C25_FallsBackToTypeNode ==
    resolver = "manager" /\ AccountNodeCreateFailed
        => node_id = second_node /\ ~AccountAborted

\* C26: no resolver ever asks the directory to create the root node, whatever
\* the node listing returned
C26_RootNeverCreated ==
    \A i \in DOMAIN node_requests :
        node_requests[i].op = "create" => node_requests[i].parent # 0

\* the directory holds a node under parent p whose name is v up to letter case
ExistsUnder(p, v) ==
    \E i \in DOMAIN nodes : nodes[i].parent = p /\ Lower(nodes[i].value) = Lower(v)

\* C27: no create is issued for a segment that the directory already holds
\* under that parent, names compared ignoring letter case, also when the
\* listing of the children failed
C27_NoCreateForExisting ==
    [][\A i \in DOMAIN node_requests' :
          i > Len(node_requests) /\ node_requests'[i].op = "create"
              => ~ExistsUnder(node_requests'[i].parent, node_requests'[i].value)]_vars

-----------------------------------------------------------------------------
(* Properties of the instance normalisation of sync_cloud_to_jms *)

\* the instances the cloud holds in the regions of the account
RegionServers ==
    UNION {{regions[r][i] : i \in DOMAIN regions[r]} : r \in DOMAIN regions}

\* every region was listed in full
Enumerated ==
    /\ pc \notin {"idle", "account", "regions"}
    /\ sync_result.error_message \notin {"no client", "no config"}
    /\ lost_ids = {}

HasAnIp(s) == s.private_ip # "" \/ s.public_ip # ""

PreferredIp(s) == IF s.private_ip # "" THEN s.private_ip ELSE s.public_ip

\* C28: an instance is left out of the reconciliation only when it has neither
\* a private nor a public IP; one that has either is kept with the private IP
\* when it has one and the public IP otherwise; an instance left out is the
\* subject of no create, update or delete.
C28_ExcludedOnlyWithoutIp ==
    Enumerated =>
        \A s \in RegionServers :
            IF HasAnIp(s)
            THEN \E i \in DOMAIN all_instances :
                    /\ all_instances[i].instance_id = s.instance_id
                    /\ all_instances[i].ip = PreferredIp(s)
            ELSE /\ \A i \in DOMAIN all_instances : all_instances[i].instance_id # s.instance_id
                 /\ \A i \in DOMAIN calls : calls[i].iid # s.instance_id

-----------------------------------------------------------------------------
(* Properties of the order of the stages of one account sync *)

\* the node's assets are listed only once the node is resolved
ListedAfterNode ==
    pc \in {"account", "regions", "check", "node"} => js_assets = << >> /\ calls = << >>

\* the create, update and delete requests sent for assets
AssetCalls == CallsOf("create") \cup CallsOf("update") \cup CallsOf("delete")

\* the indexes are whole while instances are matched and deletes decided
IndexedBeforeMatch ==
    pc \in {"match", "delete"} =>
        /\ js_by_iid = IndexByInstanceId(js_assets)
        /\ cloud_by_iid = ItemsByInstanceId(cloud_assets, 1)

\* no decision is left to take once a create, update or delete was sent
DecidedBeforeCalls == AssetCalls # {} => pc \notin {"match", "delete"}

\* C29: within one account sync the stages never overlap: the node is resolved
\* before the assets are listed, the indexes are complete before the first
\* match decision, and every create, update and delete decision is made before
\* the first create, update or delete request is sent.
C29_StagesDoNotOverlap ==
    /\ ListedAfterNode
    /\ IndexedBeforeMatch
    /\ DecidedBeforeCalls

-----------------------------------------------------------------------------
(* Properties of the requests of one run of sync_assets *)

\* C30: the creates, updates and deletes of one run are disjoint: no instance
\* is both created and updated, no directory asset is both updated and
\* deleted or both created and deleted, and an asset matched to a live
\* instance is not deleted in that run.
C30_PlanSetsDisjoint ==
    /\ \A i \in CallsOf("create"), j \in CallsOf("update") : calls[i].iid # calls[j].iid
    /\ \A i \in CallsOf("update"), j \in CallsOf("delete") : calls[i].id # calls[j].id
    /\ \A i \in CallsOf("create"), j \in CallsOf("delete") : calls[i].id # calls[j].id
    /\ \A j \in CallsOf("delete") : calls[j].id \notin processed

\* a run that created an asset, updated a matched one and deleted another
C30_Witness ==
    /\ pc = "done"
    /\ CallsOf("create") # {}
    /\ CallsOf("update") # {}
    /\ CallsOf("delete") # {}
    /\ processed # {}

-----------------------------------------------------------------------------
(* Properties of the failure records *)

\* C31: when a sync returns, failed equals the number of entries of errors,
\* and each entry names the kind of the operation that failed; for
\* AssetSynchronizer as for AssetSyncManager.
C31_FailedMatchesErrors ==
    pc = "done" =>
        /\ result.failed = Len(result.errors)
        /\ \A i \in DOMAIN result.errors : result.errors[i] \in {"create", "update", "delete", "sync"}

-----------------------------------------------------------------------------
(* Properties of the node cache *)

\* the provider-type segment is in the cache while the account segment is
\* being resolved
SegmentCachedBeforeNext ==
    /\ (resolver = "manager" /\ node_pc = "third") => Len(node_cache) >= 2
    /\ (resolver = "synchronizer" /\ node_pc = "part") => Len(node_cache) >= level - 1

\* the whole path of the account is in the cache
PathCached == Len(node_cache) = 3

\* no request goes to the directory while the path is cached
NoRequestWhenCached == [][PathCached => node_requests' = node_requests]_vars

\* C32: each resolved segment of the path is written to the cache before the
\* next segment is resolved, and once the path of an account is in the
\* cache, resolving the account again sends no request to the directory.
C32_ResolvedOnce ==
    /\ []SegmentCachedBeforeNext
    /\ NoRequestWhenCached

-----------------------------------------------------------------------------
(* _extract_instance_id_from_comment of AssetSyncManager and of
   AssetSynchronizer, applied to a comment *)

\* lines of a comment
MaxLines == 2

\* a labelled line
LabelLine(k, sp, v) == [key |-> k, sep |-> sp, val |-> v]

\* the lines an operator may have written: the label in either letter case,
\* the colon half-width or full-width ("U+FF1A"), another label, free text
LineUniverse ==
    { IdLine("i-1"),
      LabelLine("Instance_ID", ":", "i-2"),
      LabelLine("instance_id", "U+FF1A", "i-3"),
      LabelLine("Instance_ID", "U+FF1A", "i-4"),
      LabelLine("instance id", ":", "i-5"),
      LabelLine("zh instance id", ":", "i-6"),
      TextLine("synced") }

Comments == UNION {[1..n -> LineUniverse] : n \in 0..MaxLines}

\* both extractors are applied to the comment
Extract ==
    /\ extract_pc = "call"
    /\ extracted' = [manager |-> ExtractInstanceId(comment_arg),
                     synchronizer |-> OpsExtractInstanceId(comment_arg)]
    /\ extract_pc' = "returned"
    /\ UNCHANGED comment_arg
    /\ UNCHANGED <<sync_vars, client_vars, run_vars, node_vars, pool_vars, mutation_vars>>

InitExtract ==
    /\ SyncIdle
    /\ ClientIdle
    /\ RunIdle
    /\ NodesIdle
    /\ PoolIdle
    /\ MutationsIdle
    /\ comment_arg \in Comments
    /\ extracted = [manager |-> "", synchronizer |-> ""]
    /\ extract_pc = "call"

NextExtract == Extract

SpecExtract == InitExtract /\ [][NextExtract]_vars

\* the lines whose label is instance_id in any letter case, followed by a
\* half-width or a full-width colon
IdLines(comment) ==
    {i \in DOMAIN comment :
        Lower(comment[i].key) = "instance_id" /\ comment[i].sep \in {":", "U+FF1A"}}

\* the id embedded in the first such line, "" for none
EmbeddedId(comment) ==
    IF IdLines(comment) = {} THEN ""
    ELSE comment[CHOOSE i \in IdLines(comment) : \A j \in IdLines(comment) : i <= j].val

\* C33: the extraction returns the embedded id for a comment holding a line
\* whose label is instance_id in any letter case followed by a half-width or
\* a full-width colon, and none for a comment without such a line; for both
\* extractors.
C33_ExtractionTolerant ==
    extract_pc = "returned" =>
        /\ extracted.manager = EmbeddedId(comment_arg)
        /\ extracted.synchronizer = EmbeddedId(comment_arg)

-----------------------------------------------------------------------------
(* AssetSynchronizer._process_assets_creation and _create_assets_batch *)

\* instances handed to _process_assets_creation
MaxWork == 3

\* largest batch_size and parallel_workers tried
MaxBatchSize == 2

MaxWorkers == 2

WorkUniverse == <<"i-1", "i-2", "i-3", "i-4">>

\* one call of _create_assets_batch: its slice of the work, the position of
\* its loop, "queued", "running" or "done", the step of the running item,
\* the outcome of its create_asset call and the tally read under the lock
Batch(items) ==
    [items |-> items, pos |-> 1, state |-> "queued", step |-> "call", ok |-> FALSE, tmp |-> 0]

RECURSIVE BatchesOverlapping(_, _, _)
\* slices that take one item more than batch_size
BatchesOverlapping(w, size, i) ==
    IF i > Len(w) THEN << >>
    ELSE <<Batch(SubSeq(w, i, IF i + size <= Len(w) THEN i + size ELSE Len(w)))>>
         \o BatchesOverlapping(w, size, i + size)

RECURSIVE Batches(_, _, _)
\* assets[i:i+batch_size] for i in range(0, len(assets), batch_size)
Batches(w, size, i) ==
    IF i > Len(w) THEN << >>
    ELSE <<Batch(SubSeq(w, i, IF i + size - 1 <= Len(w) THEN i + size - 1 ELSE Len(w)))>>
         \o Batches(w, size, i + size)

Running == {b \in DOMAIN batches : batches[b].state = "running"}

\* the threads that run batches: the caller alone when the work fits one
\* batch, else the workers of the pool
Threads == IF Len(work) <= batch_size THEN 1 ELSE parallel_workers

\* the work is taken as one batch by the caller, or sliced for the pool
ProcessAssetsCreation ==
    /\ pool_pc = "start"
    /\ batches' = IF Len(work) <= batch_size THEN <<Batch(work)>>
                  ELSE Batches(work, batch_size, 1)
    /\ pool_pc' = "running"
    /\ UNCHANGED <<work, batch_size, parallel_workers, metrics, created_assets, lock,
                   attempts, platform_nodes, cache_writes>>
    /\ UNCHANGED <<sync_vars, client_vars, run_vars, node_vars, extract_vars, mutation_vars>>

\* a lookup that resolves the node again whatever the cache holds
EnsurePlatformNodeUncached(cached, thread) == <<thread>>

\* the writes _ensure_platform_node makes to _platform_nodes when called by
\* thread: none when the key is cached, else the resolved node is stored
EnsurePlatformNode(cached, thread) == IF cached # 0 THEN << >> ELSE <<thread>>

\* a thread enters _create_assets_batch for a queued batch: the platform
\* node is looked up, for the batch and for each asset object it builds
CreateAssetsBatch(b) ==
    /\ pool_pc = "running"
    /\ batches[b].state = "queued"
    /\ Cardinality(Running) < Threads
    /\ batches' = [batches EXCEPT ![b].state = "running"]
    /\ cache_writes' = cache_writes \o EnsurePlatformNode(platform_nodes, b)
    /\ UNCHANGED <<work, batch_size, parallel_workers, pool_pc, metrics,
                   created_assets, lock, attempts, platform_nodes>>
    /\ UNCHANGED <<sync_vars, client_vars, run_vars, node_vars, extract_vars, mutation_vars>>

\* create_asset is called for the item at hand and returns or raises
CreateCall(b) ==
    /\ batches[b].state = "running"
    /\ batches[b].step = "call"
    /\ \E ok \in BOOLEAN :
          /\ attempts' = Append(attempts, [item |-> batches[b].items[batches[b].pos],
                                           ok |-> ok])
          /\ batches' = [batches EXCEPT ![b].step = "enter", ![b].ok = ok]
    /\ UNCHANGED <<work, batch_size, parallel_workers, pool_pc, metrics,
                   created_assets, lock, platform_nodes, cache_writes>>
    /\ UNCHANGED <<sync_vars, client_vars, run_vars, node_vars, extract_vars, mutation_vars>>

\* a lock that lets every thread in
MayEnterAlways(l) == TRUE

\* with self._lock
MayEnter(l) == l = 0

\* the lock is taken and the tally is read
Enter(b) ==
    /\ batches[b].state = "running"
    /\ batches[b].step = "enter"
    /\ MayEnter(lock)
    /\ lock' = b
    /\ batches' = [batches EXCEPT ![b].step = "leave",
                       ![b].tmp = IF batches[b].ok THEN metrics.created ELSE metrics.failed]
    /\ UNCHANGED <<work, batch_size, parallel_workers, pool_pc, metrics,
                   created_assets, attempts, platform_nodes, cache_writes>>
    /\ UNCHANGED <<sync_vars, client_vars, run_vars, node_vars, extract_vars, mutation_vars>>

\* the tally is written back, the created asset is noted, the lock is
\* released and the loop of the batch moves on
Leave(b) ==
    /\ batches[b].state = "running"
    /\ batches[b].step = "leave"
    /\ metrics' = IF batches[b].ok
                  THEN [metrics EXCEPT !.created = batches[b].tmp + 1]
                  ELSE [metrics EXCEPT !.failed = batches[b].tmp + 1]
    /\ created_assets' = IF batches[b].ok
                         THEN Append(created_assets, batches[b].items[batches[b].pos])
                         ELSE created_assets
    /\ lock' = 0
    /\ batches' = IF batches[b].pos < Len(batches[b].items)
                  THEN [batches EXCEPT ![b].step = "call", ![b].pos = @ + 1]
                  ELSE [batches EXCEPT ![b].state = "done"]
    /\ UNCHANGED <<work, batch_size, parallel_workers, pool_pc, attempts,
                   platform_nodes, cache_writes>>
    /\ UNCHANGED <<sync_vars, client_vars, run_vars, node_vars, extract_vars, mutation_vars>>

\* the call returned, or the with block of the executor was left
BatchesOver(bs) == \A b \in DOMAIN bs : bs[b].state = "done"

ProcessReturn ==
    /\ pool_pc = "running"
    /\ BatchesOver(batches)
    /\ pool_pc' = "returned"
    /\ UNCHANGED <<work, batch_size, parallel_workers, batches, metrics,
                   created_assets, lock, attempts, platform_nodes, cache_writes>>
    /\ UNCHANGED <<sync_vars, client_vars, run_vars, node_vars, extract_vars, mutation_vars>>

\* sync_assets has resolved the platform node and found instances to create
InitPool ==
    /\ SyncIdle
    /\ ClientIdle
    /\ RunIdle
    /\ NodesIdle
    /\ ExtractIdle
    /\ MutationsIdle
    /\ work \in {SubSeq(WorkUniverse, 1, n) : n \in 1..MaxWork}
    /\ batch_size \in 1..MaxBatchSize
    /\ parallel_workers \in 1..MaxWorkers
    /\ pool_pc = "start"
    /\ batches = << >>
    /\ metrics = [created |-> 0, failed |-> 0]
    /\ created_assets = << >>
    /\ lock = 0
    /\ attempts = << >>
    /\ platform_nodes = RootId
    /\ cache_writes = <<0>>

NextPool ==
    \/ ProcessAssetsCreation
    \/ \E b \in DOMAIN batches : CreateAssetsBatch(b)
    \/ \E b \in DOMAIN batches : CreateCall(b)
    \/ \E b \in DOMAIN batches : Enter(b)
    \/ \E b \in DOMAIN batches : Leave(b)
    \/ ProcessReturn

SpecPool == InitPool /\ [][NextPool]_vars

\* the create_asset calls made for instance i
AttemptsOf(i) == {k \in DOMAIN attempts : attempts[k].item = i}

WorkItems == {work[k] : k \in DOMAIN work}

RECURSIVE Concat(_, _)
\* the batches' items from batch b on, in order
Concat(bs, b) == IF b > Len(bs) THEN << >> ELSE bs[b].items \o Concat(bs, b + 1)

\* the work is one batch when it fits batch_size, else slices of at most
\* batch_size that together are the work
SlicedAsDocumented ==
    pool_pc # "start" =>
        /\ Concat(batches, 1) = work
        /\ Len(work) <= batch_size => Len(batches) = 1
        /\ \A b \in DOMAIN batches : Len(batches[b].items) <= batch_size

Succeeded == {k \in DOMAIN attempts : attempts[k].ok}

C37_WorkersOnlyRead ==
    /\ \A k \in DOMAIN cache_writes : cache_writes[k] = 0
    /\ pool_pc # "start" => cache_writes = <<0>>

C37_Witness ==
    /\ pool_pc = "running"
    /\ Cardinality(Running) > 1
    /\ \A b \in DOMAIN batches : batches[b].state # "queued"

-----------------------------------------------------------------------------
(* deleted_assets *)

\* the assets whose delete request was answered with success in this run
Executed == {calls[i].id : i \in {k \in CallsOf("delete") : calls[k].ok}}

\* C36: after a sync, deleted_assets holds exactly the assets whose delete
\* was executed, each with the reason that triggered it; an asset whose
\* delete failed or was never sent is not in it
C36_DeletedAreExecuted ==
    pc = "done" =>
        /\ {deleted_assets[k].id : k \in DOMAIN deleted_assets} = Executed
        /\ Len(deleted_assets) = Cardinality(Executed)
        /\ \A k \in DOMAIN deleted_assets : deleted_assets[k].reason # ""

-----------------------------------------------------------------------------
(* an empty inventory *)

Enumerating == pc \in {"account", "regions"}

\* C38: when the enumeration of an account yields no instance,
\* sync_cloud_to_jms returns after the count check: it resolves or creates no
\* node and sends no create, update or delete of an asset
C38_EmptyInventoryTouchesNothing ==
    (~Enumerating /\ all_instances = << >>) =>
        /\ pc \in {"check", "returned"}
        /\ calls = << >>

C38_Witness ==
    /\ pc = "returned"
    /\ all_instances = << >>
    /\ sync_result.error_message = "empty"
    /\ dir # << >>

-----------------------------------------------------------------------------
(* JumpServerClient: the listing cache and the asset mutations *)

\* assets the directory can hold
MaxServerAssets == 2

\* create_asset, update_asset and delete_asset calls of a behaviour
MaxMutations == 2

HostIds == 1..MaxServerAssets

\* the params get_assets is called with: none (get_all_assets) or the node
\* (get_assets_by_node)
ListParams == {"none", "node"}

\* f"get_assets:{json.dumps(params, sort_keys=True)}"
CacheKey(params) ==
    IF params = "none" THEN "get_assets:{}" ELSE "get_assets:{node: n1}"

\* the keys the client reads, writes or deletes
CacheKeys == {"get_assets", "get_all_assets"} \cup {CacheKey(p) : p \in ListParams}

NoEntry == [assets |-> << >>, stamp |-> 0 - 1]

\* self.cache.delete("get_assets"); self.cache.delete("get_all_assets")
ClearCache(st) == [st EXCEPT !["get_assets"] = NoEntry, !["get_all_assets"] = NoEntry]

\* get_assets: a cached entry is handed back unless a refresh is forced, else
\* the directory is asked and its answer is stored; a refused GET raises
GetAssets ==
    /\ \E params \in ListParams, force_refresh \in BOOLEAN :
          LET cache_key == CacheKey(params)
          IN IF ~force_refresh /\ store[cache_key] # NoEntry
             THEN /\ last_listing' = [assets |-> store[cache_key].assets,
                                      stamp |-> store[cache_key].stamp, at |-> mutations]
                  /\ UNCHANGED store
             ELSE \/ /\ store' = [store EXCEPT ![cache_key] =
                                      [assets |-> jms_server, stamp |-> mutations]]
                     /\ last_listing' = [assets |-> jms_server, stamp |-> mutations,
                                         at |-> mutations]
                  \/ /\ last_listing' = << >>
                     /\ UNCHANGED store
    /\ UNCHANGED <<jms_server, mutations, mutation_log>>
    /\ UNCHANGED <<sync_vars, client_vars, run_vars, node_vars, extract_vars, pool_vars>>

\* time.time() > expires_at: the entry under key is dropped by the next has
Expire ==
    /\ \E key \in CacheKeys :
          /\ store[key] # NoEntry
          /\ store' = [store EXCEPT ![key] = NoEntry]
    /\ UNCHANGED <<jms_server, mutations, last_listing, mutation_log>>
    /\ UNCHANGED <<sync_vars, client_vars, run_vars, node_vars, extract_vars, pool_vars>>

\* one request of a mutation: sent through _api_request or directly with
\* requests, and whether the directory applied it
Sent(via, applied) == [via |-> via, applied |-> applied]

\* one call of create_asset, update_asset or delete_asset
MutationCall(op, id, was_raised, sent) ==
    [op |-> op, id |-> id, raised |-> was_raised, requests |-> sent]

\* what the directory holds after a request for asset id was applied
AfterRequest(srv, op, id) ==
    [srv EXCEPT ![id] = IF op = "delete" THEN 0 ELSE @ + 1]

\* create_asset and update_asset: the request goes through _api_request and
\* the cache is cleared; when that raises, the same request is sent once
\* more with requests to log the error detail, and the exception is raised
CreateOrUpdateAsset(op, id) ==
    /\ Len(mutation_log) < MaxMutations
    /\ IF op = "create" THEN jms_server[id] = 0 ELSE jms_server[id] > 0
    /\ \/ /\ jms_server' = AfterRequest(jms_server, op, id)
          /\ store' = ClearCache(store)
          /\ mutations' = mutations + 1
          /\ mutation_log' = Append(mutation_log,
                MutationCall(op, id, FALSE, <<Sent("_api_request", TRUE)>>))
       \/ \E accepted \in BOOLEAN :
             /\ jms_server' = IF accepted THEN AfterRequest(jms_server, op, id) ELSE jms_server
             /\ mutation_log' = Append(mutation_log,
                   MutationCall(op, id, TRUE,
                       <<Sent("_api_request", FALSE), Sent("requests", accepted)>>))
             /\ UNCHANGED <<store, mutations>>
    /\ UNCHANGED last_listing
    /\ UNCHANGED <<sync_vars, client_vars, run_vars, node_vars, extract_vars, pool_vars>>

\* delete_asset: the request goes through _api_request and the cache is
\* cleared; when that raises, the exception is raised
DeleteAsset(id) ==
    /\ Len(mutation_log) < MaxMutations
    /\ jms_server[id] > 0
    /\ \/ /\ jms_server' = AfterRequest(jms_server, "delete", id)
          /\ store' = ClearCache(store)
          /\ mutations' = mutations + 1
          /\ mutation_log' = Append(mutation_log,
                MutationCall("delete", id, FALSE, <<Sent("_api_request", TRUE)>>))
       \/ /\ mutation_log' = Append(mutation_log,
                MutationCall("delete", id, TRUE, <<Sent("_api_request", FALSE)>>))
          /\ UNCHANGED <<jms_server, store, mutations>>
    /\ UNCHANGED last_listing
    /\ UNCHANGED <<sync_vars, client_vars, run_vars, node_vars, extract_vars, pool_vars>>

\* a client just built, in front of a directory that holds some assets
InitMutations ==
    /\ SyncIdle
    /\ ClientIdle
    /\ RunIdle
    /\ NodesIdle
    /\ ExtractIdle
    /\ PoolIdle
    /\ jms_server \in [HostIds -> {0, 1}]
    /\ store = [key \in CacheKeys |-> NoEntry]
    /\ mutations = 0
    /\ last_listing = << >>
    /\ mutation_log = << >>

NextMutations ==
    \/ GetAssets
    \/ Expire
    \/ \E id \in HostIds : CreateOrUpdateAsset("create", id)
    \/ \E id \in HostIds : CreateOrUpdateAsset("update", id)
    \/ \E id \in HostIds : DeleteAsset(id)

SpecMutations == InitMutations /\ [][NextMutations]_vars

\* C39: after create_asset, update_asset or delete_asset has succeeded, a
\* later get_assets or get_assets_by_node never returns a list that was
\* cached before that mutation
C39_NoStaleListing ==
    last_listing # << >> => last_listing.stamp = last_listing.at

\* C40: when create_asset or update_asset raises, the mutation has not been
\* applied: after the retried request failed the client sends no further
\* create or update request for that item
C40_RaisedMeansNotApplied ==
    \A k \in DOMAIN mutation_log :
        mutation_log[k].raised =>
            /\ Len(mutation_log[k].requests) = 1
            /\ \A r \in DOMAIN mutation_log[k].requests :
                  ~mutation_log[k].requests[r].applied

====
